---- MODULE Spec2Model ----
(***************************************************************************)
(* Metal-enrollment control plane: the API service's machine handlers, the *)
(* relational store they share with the build orchestrator, and the        *)
(* orchestrator's worker loop.  Every HTTP request runs on its own         *)
(* goroutine, so a handler is a sequence of steps, one per store call, and *)
(* the steps of different handlers and of the worker interleave.           *)
(***************************************************************************)
EXTENDS Naturals, Integers, Sequences, FiniteSets, Bags, TLC

\* ---------------------------------------------------------------- bounds
\* number of HTTP requests issued in one behaviour
MaxReqs == 4
\* number of requests that may be in flight at the same time
NumSlots == 2
\* number of write calls that carry one artifact to the disk
NumChunks == 2

Slots == 1..NumSlots

\* ---------------------------------------------------------------- inputs
Tags == {"SVC-001", "SVC-002"}
Drivers == {"sqlite3", "postgres"}

\* a nil *BMCInfo
NilBMC == [nil |-> TRUE]
\* request bodies of PUT /machines/{id}, decoded into a models.Machine:
\* absent fields decode to "", an absent bmc_info to nil
Patches ==
  { [hostname |-> "h1", description |-> "d1", nixos_config |-> "",
     bmc_info |-> NilBMC],
    [hostname |-> "",   description |-> "",   nixos_config |-> "cfgA",
     bmc_info |-> NilBMC] }

\* ---------------------------------------------------------------- models
StatusEnrolled == "enrolled"
StatusConfigured == "configured"
StatusBuilding == "building"
StatusReady == "ready"
StatusFailed == "failed"

\* a nil *models.Machine
NilMachine == [id |-> 0]
\* no *models.BuildRequest in the worker's hands
NoBuild == [id |-> 0]
\* a nil *string / *time.Time / SQL NULL
Null == 0
\* the mac_address of the enrollment request that carries the service tag
MACAddress(tag) == IF tag = "SVC-001" THEN "aa:01" ELSE "aa:02"

VARIABLES
  driver,      \* db.driver
  machines,    \* table machines: id -> row
  builds,      \* table builds: id -> row
  events,      \* table machine_events: bag of <<machine_id, event, data>>
  metrics,     \* table machine_metrics: bag of machine ids
  triggers,    \* TriggerEvent calls made: bag of <<event, machine_id, data>>
  clock,       \* wall clock read by time.Now()
  nextId,      \* number of uuids drawn so far
  issued,      \* number of requests issued so far
  req,         \* per slot: the goroutine handling one HTTP request
  alive,       \* the builder process is running
  wpc,         \* position of the worker goroutine
  wbuild,      \* the worker's *models.BuildRequest
  wmachine,    \* the worker's *models.Machine
  werr,        \* the errorMsg handed to failBuild
  files,       \* artifact tree: <<service_tag, file name>> -> content
  boot,        \* the chain-boot server's goroutine for one iPXE request
  served,      \* what the static file server sent for the last GET /images/
  webhooks,    \* table webhooks: id -> row
  deliveries,  \* table webhook_deliveries: the rows in the order of insertion
  disp,        \* the goroutine of TriggerEvent and of the sendWebhook it starts
  sent,        \* the HTTP requests made to webhook targets, in order
  apiUp,       \* the API process is running
  templates,   \* table machine_templates: id -> row
  enableAuth,  \* s.config.EnableAuth
  access,      \* a request to the router and the status it answers with
  power_operations,   \* table power_operations: id -> row
  pgo,         \* per power operation: the *PowerOperation and its goroutine
  groups,      \* table groups: the ids of the rows
  group_memberships,  \* table group_memberships: <<group_id, machine_id>>
  users,       \* table users: id -> row
  tokens,      \* the JWTs the server has handed out
  session      \* the last request to a user or token route and its answer

dbvars == <<machines, builds, events, metrics>>
wvars == <<alive, wpc, wbuild, wmachine, werr>>
\* what the machine handlers and the build worker never write
bootvars == <<boot, served>>
hookvars == <<webhooks, deliveries, disp, sent, apiUp>>
uservars == <<users, tokens, session>>
authvars == <<enableAuth, access, uservars>>
powervars == <<power_operations, pgo>>
groupvars == <<groups, group_memberships>>
sidevars == <<authvars, powervars, groupvars>>
extvars == <<files, bootvars, hookvars, templates, sidevars>>
\* what the deletion of a machine leaves alone outside the machine tables
keptvars == <<files, bootvars, hookvars, templates, authvars, pgo, groups>>
vars == <<driver, machines, builds, events, metrics, triggers, clock, nextId,
          issued, req, alive, wpc, wbuild, wmachine, werr, files, boot, served,
          webhooks, deliveries, disp, sent, apiUp, templates, enableAuth,
          access, power_operations, pgo, groups, group_memberships, users,
          tokens, session>>

\* ------------------------------------------------------ store operations
\* GetMachine: the row, or nil when no row has that id
GetMachine(ms, id) == IF id \in DOMAIN ms THEN ms[id] ELSE NilMachine

\* GetMachineByServiceTag: the row with that tag, or nil
GetMachineByServiceTag(ms, tag) ==
  IF \E i \in DOMAIN ms : ms[i].service_tag = tag
    THEN ms[CHOOSE i \in DOMAIN ms : ms[i].service_tag = tag]
    ELSE NilMachine

\* a machines table declared without UNIQUE on service_tag
TagTakenNoUnique(ms, tag) == FALSE

\* the UNIQUE constraint on machines.service_tag
TagTaken(ms, tag) == \E i \in DOMAIN ms : ms[i].service_tag = tag

\* CreateMachine: INSERT of a row with status enrolled and NULL optionals
NewMachine(id, tag) ==
  [id |-> id, service_tag |-> tag, status |-> StatusEnrolled,
   hostname |-> "", description |-> "", nixos_config |-> "",
   last_build_id |-> Null, last_build_time |-> Null,
   last_seen_at |-> Null, bmc_info |-> NilBMC,
   mac_address |-> MACAddress(tag)]

CreateMachine(ms, id, tag) ==
  [i \in DOMAIN ms \cup {id} |-> IF i = id THEN NewMachine(id, tag) ELSE ms[i]]

\* UpdateMachine: UPDATE ... SET every mutable column WHERE id = m.id;
\* a statement that matches no row changes nothing and is no error
UpdateMachine(ms, m) ==
  IF m.id \in DOMAIN ms
    THEN [ms EXCEPT ![m.id] =
            [@ EXCEPT !.hostname = m.hostname,
                      !.description = m.description,
                      !.nixos_config = m.nixos_config,
                      !.status = m.status,
                      !.last_build_id = m.last_build_id,
                      !.last_build_time = m.last_build_time,
                      !.last_seen_at = m.last_seen_at,
                      !.bmc_info = m.bmc_info]]
    ELSE ms

\* DeleteMachine: DELETE FROM machines WHERE id = ?
DeleteMachine(ms, id) == [i \in DOMAIN ms \ {id} |-> ms[i]]

\* FOREIGN KEY (machine_id) REFERENCES machines(id) of table builds is
\* enforced by postgres; go-sqlite3 leaves foreign keys off by default
FKEnforced == driver = "postgres"
Referenced(bs, id) == \E b \in DOMAIN bs : bs[b].machine_id = id

\* machine_events: FOREIGN KEY (machine_id) ... ON DELETE CASCADE, which
\* removes the events of a deleted machine where foreign keys are enforced
CascadeEvents(ev, id) ==
  IF FKEnforced
    THEN [e \in {x \in DOMAIN ev : x[1] # id} |-> ev[e]]
    ELSE ev

\* power_operations and group_memberships: FOREIGN KEY (machine_id) ...
\* ON DELETE CASCADE
CascadePower(po, id) ==
  IF FKEnforced
    THEN [o \in {x \in DOMAIN po : po[x].machine_id # id} |-> po[o]]
    ELSE po
CascadeMemberships(gm, id) ==
  IF FKEnforced THEN {x \in gm : x[2] # id} ELSE gm

\* CreateBuild: INSERT of a pending build holding the config snapshot
NewBuild(id, mid, config, now) ==
  [id |-> id, machine_id |-> mid, status |-> "pending", config |-> config,
   log_output |-> "", error |-> "", artifact_url |-> "",
   created_at |-> now, completed_at |-> Null]

CreateBuild(bs, id, mid, config, now) ==
  [i \in DOMAIN bs \cup {id} |->
      IF i = id THEN NewBuild(id, mid, config, now) ELSE bs[i]]

\* UpdateBuild: UPDATE builds SET status, log_output, error, artifact_url,
\* completed_at WHERE id = b.id
UpdateBuild(bs, b) ==
  IF b.id \in DOMAIN bs
    THEN [bs EXCEPT ![b.id] =
            [@ EXCEPT !.status = b.status,
                      !.log_output = b.log_output,
                      !.error = b.error,
                      !.artifact_url = b.artifact_url,
                      !.completed_at = b.completed_at]]
    ELSE bs

\* handleEnroll: existing.LastSeenAt = &now
Seen(m, now) == [m EXCEPT !.last_seen_at = now]

\* a handler that sets the status and forgets the build id
BuildingMachineNoId(m, bid) == [m EXCEPT !.status = StatusBuilding]

\* handleBuildMachine: machine.Status = building, machine.LastBuildID = &build.ID
BuildingMachine(m, bid) ==
  [m EXCEPT !.status = StatusBuilding, !.last_build_id = bid]

\* a write-back that records the build and leaves the status alone
ReadyMachineNoStatus(m, b) ==
  [m EXCEPT !.last_build_id = b.id, !.last_build_time = b.completed_at]

\* processBuild: machine.Status = ready, LastBuildID = &build.ID,
\* LastBuildTime = &now
ReadyMachine(m, b) ==
  [m EXCEPT !.status = StatusReady, !.last_build_id = b.id,
            !.last_build_time = b.completed_at]

\* failBuild: machine.Status = failed
FailedMachine(m) == [m EXCEPT !.status = StatusFailed]

\* processBuild: build.Status = "success", ArtifactURL, CompletedAt = &now
SuccessBuild(b, tag, now) ==
  [b EXCEPT !.status = "success", !.artifact_url = <<"/images/machines", tag>>,
            !.completed_at = now]

\* a failBuild that drops the message
FailedBuildNoError(b, errorMsg, now) ==
  [b EXCEPT !.status = "failed", !.completed_at = now]

\* failBuild: build.Status = "failed", Error = errorMsg, CompletedAt = &now
FailedBuild(b, errorMsg, now) ==
  [b EXCEPT !.status = "failed", !.error = errorMsg, !.completed_at = now]

\* EmitMachineEvent: append one machine_events row
EmitMachineEvent(ev, mid, name, data) == ev (+) SetToBag({<<mid, name, data>>})

\* go s.webhookService.TriggerEvent(eventType, data): the call is made; its
\* result is dropped
GoTriggerEvent(tr, name, mid, data) == tr (+) SetToBag({<<name, mid, data>>})

\* CreateMachineMetrics: append one machine_metrics row
CreateMachineMetrics(mt, mid) == mt (+) SetToBag({mid})

\* machine_metrics: FOREIGN KEY (machine_id) ... ON DELETE CASCADE
CascadeMetrics(mt, id) ==
  IF FKEnforced
    THEN [e \in {x \in DOMAIN mt : x # id} |-> mt[e]]
    ELSE mt

\* ------------------------------------------------------- artifact tree
\* no file at that path: os.Stat fails, the file server answers 404
NoFile == [build |-> 0, len |-> 0]
KernelPath(tag) == <<tag, "bzImage">>
InitrdPath(tag) == <<tag, "initrd">>

\* the content of a path
ReadFile(fs, path) == IF path \in DOMAIN fs THEN fs[path] ELSE NoFile

\* os.WriteFile opens the destination with O_CREATE|O_TRUNC: the path
\* exists from then on and holds nothing of the data yet
OpenTrunc(fs, path, bid) ==
  [q \in DOMAIN fs \cup {path} |->
     IF q = path THEN [build |-> bid, len |-> 0] ELSE fs[q]]

\* one write call appends the next part of the data
WriteChunk(fs, path) == [fs EXCEPT ![path].len = @ + 1]

\* copyFile run to its end: the whole of the data is in the destination
copyFile(fs, path, bid) ==
  [q \in DOMAIN fs \cup {path} |->
     IF q = path THEN [build |-> bid, len |-> NumChunks] ELSE fs[q]]

\* ------------------------------------------------------------- requests
NoPatch ==
  [hostname |-> "", description |-> "", nixos_config |-> "",
   bmc_info |-> NilBMC]

\* no *models.PowerOperation
NoPowerOp == [id |-> 0]
\* result is the BulkOperationResult of a bulk request
NoResult == [total |-> 0, success |-> 0, failure |-> 0, errors |-> <<>>]
IdleReq ==
  [kind |-> "none", pc |-> "idle", tag |-> "", mid |-> 0, patch |-> NoPatch,
   m |-> NilMachine, old |-> "", bid |-> 0, code |-> 0,
   tid |-> 0, op |-> "", ids |-> <<>>, data |-> <<>>, result |-> NoResult,
   power |-> NoPowerOp]

\* a handler that is about to run for a request of that kind
NewReq(kind) == [IdleReq EXCEPT !.kind = kind]

\* a finished handler: the status code and the record it wrote as response
Respond(r, code, mid, bid) ==
  [IdleReq EXCEPT !.kind = r.kind, !.pc = "done", !.code = code,
                  !.mid = mid, !.bid = bid]

\* a handler that panicked: net/http recovers and closes the connection
\* without a status
Aborted(r) == [IdleReq EXCEPT !.kind = r.kind, !.pc = "done"]

\* no goroutine of the webhook service is running
NoDelivery ==
  [webhook_id |-> 0, event |-> "", payload |-> <<>>, status_code |-> 0,
   error |-> "", attempts |-> 0, success |-> FALSE, completed_at |-> 0]
IdleDisp ==
  [pc |-> "idle", event |-> "", mid |-> 0, hook |-> [id |-> 0],
   maxRetries |-> 0, attempt |-> 0, lastErr |-> "", delivery |-> NoDelivery]

\* the chain-boot handler at rest; resp is the script it rendered
NoScript == [template |-> "", service_tag |-> "", hostname |-> ""]
IdleBoot ==
  [pc |-> "idle", tag |-> "", exists |-> FALSE, hostname |-> "",
   resp |-> NoScript]

\* no request has reached the router
NoAccess ==
  [method |-> "", path |-> <<>>, token |-> "", code |-> 0, handler |-> ""]

\* net/http starts one goroutine per request; the free slot with the least
\* number takes the next one
Free(s) == req[s].pc \in {"idle", "done"}
Accept(s) ==
  /\ Free(s)
  /\ \A t \in Slots : t < s => ~Free(t)
  /\ issued < MaxReqs
  /\ issued' = issued + 1

InitStore ==
  /\ driver = "sqlite3"
  /\ machines = <<>>
  /\ builds = <<>>
  /\ events = EmptyBag
  /\ metrics = EmptyBag
  /\ triggers = EmptyBag
  /\ clock = 1
  /\ nextId = 1
  /\ issued = 0
  /\ req = [s \in Slots |-> IdleReq]
  /\ alive = TRUE
  /\ wpc = "idle"
  /\ wbuild = NoBuild
  /\ wmachine = NilMachine
  /\ werr = ""
  /\ files = <<>>
  /\ boot = IdleBoot
  /\ served = NoFile
  /\ webhooks = <<>>
  /\ deliveries = <<>>
  /\ disp = IdleDisp
  /\ sent = <<>>
  /\ apiUp = TRUE
  /\ templates = <<>>
  /\ power_operations = <<>>
  /\ pgo = <<>>
  /\ groups = {}
  /\ group_memberships = {}

\* no request to a user or token route was made
NilToken == [alg |-> ""]
NoSession == [kind |-> "", code |-> 0, bearer |-> NilToken, token |-> NilToken]
\* --create-admin defaults to false: the table users is empty
NoUsers == users = <<>> /\ tokens = {} /\ session = NoSession

\* --enable-auth defaults to true
Init == InitStore /\ enableAuth = TRUE /\ access = NoAccess /\ NoUsers

\* ------------------------------------------------- POST /enroll
\* decode and validate the body, GetMachineByServiceTag, now := time.Now()
EnrollLookup(s, tag, ok) ==
  /\ Accept(s)
  /\ LET r == [NewReq("enroll") EXCEPT !.tag = tag]
         existing == GetMachineByServiceTag(machines, tag) IN
     IF tag = ""
       THEN /\ req' = [req EXCEPT ![s] = Respond(r, 400, 0, 0)]
            /\ UNCHANGED clock
       ELSE IF ~ok
         THEN /\ req' = [req EXCEPT ![s] = Respond(r, 500, 0, 0)]
              /\ UNCHANGED clock
         ELSE IF existing # NilMachine
           THEN /\ req' = [req EXCEPT ![s] =
                             [r EXCEPT !.pc = "enroll_touch",
                                       !.m = Seen(existing, clock)]]
                /\ clock' = clock + 1
           ELSE /\ req' = [req EXCEPT ![s] = [r EXCEPT !.pc = "enroll_create"]]
                /\ UNCHANGED clock
  /\ UNCHANGED <<driver, extvars, triggers, dbvars, nextId, wvars>>

\* a handler that reports every enrollment, also that of a known machine
EnrollTouchEmits(s, ok) ==
  /\ req[s].pc = "enroll_touch"
  /\ machines' = IF ok THEN UpdateMachine(machines, req[s].m) ELSE machines
  /\ triggers' = GoTriggerEvent(triggers, "machine.enrolled", req[s].m.id,
                                 <<req[s].tag>>)
  /\ events' = EmitMachineEvent(events, req[s].m.id, "machine.enrolled",
                                 <<req[s].tag>>)
  /\ req' = [req EXCEPT ![s] = Respond(@, 200, req[s].m.id, 0)]
  /\ UNCHANGED <<driver, extvars, metrics, builds, clock, nextId, issued, wvars>>

\* UpdateMachine(existing); a failure is logged only; respond 200
EnrollTouch(s, ok) ==
  /\ req[s].pc = "enroll_touch"
  /\ machines' = IF ok THEN UpdateMachine(machines, req[s].m) ELSE machines
  /\ req' = [req EXCEPT ![s] = Respond(@, 200, req[s].m.id, 0)]
  /\ UNCHANGED <<driver, extvars, triggers, metrics, builds, events, clock, nextId, issued, wvars>>

\* CreateMachine, EmitMachineEvent("machine.enrolled"); respond 201
EnrollCreate(s, ok) ==
  /\ req[s].pc = "enroll_create"
  /\ IF ok /\ ~TagTaken(machines, req[s].tag)
       THEN /\ machines' = CreateMachine(machines, nextId, req[s].tag)
            /\ nextId' = nextId + 1
            /\ triggers' = GoTriggerEvent(triggers, "machine.enrolled", nextId,
                                           <<req[s].tag>>)
            /\ events' = EmitMachineEvent(events, nextId, "machine.enrolled",
                                           <<req[s].tag>>)
            /\ req' = [req EXCEPT ![s] = Respond(@, 201, nextId, 0)]
       ELSE /\ req' = [req EXCEPT ![s] = Respond(@, 500, 0, 0)]
            /\ UNCHANGED <<machines, events, triggers, nextId>>
  /\ UNCHANGED <<driver, extvars, metrics, builds, clock, issued, wvars>>

\* ------------------------------------------------- PUT /machines/{id}
\* the fields of the body that are non-empty replace the machine's; a
\* non-empty nixos_config also sets status configured
ApplyPatch(m, patch) ==
  [m EXCEPT
     !.hostname = IF patch.hostname # "" THEN patch.hostname ELSE @,
     !.description = IF patch.description # "" THEN patch.description ELSE @,
     !.nixos_config = IF patch.nixos_config # "" THEN patch.nixos_config ELSE @,
     !.status = IF patch.nixos_config # "" THEN StatusConfigured ELSE @]

\* GetMachine, oldStatus := machine.Status, decode the body, patch the copy
UpdateGet(s, id, patch, ok) ==
  /\ Accept(s)
  /\ LET r == [NewReq("update") EXCEPT !.mid = id, !.patch = patch]
         machine == GetMachine(machines, id) IN
     req' = [req EXCEPT ![s] =
       IF ~ok THEN Respond(r, 500, 0, 0)
       ELSE IF machine = NilMachine THEN Respond(r, 404, 0, 0)
       ELSE [r EXCEPT !.pc = "update_write", !.old = machine.status,
                      !.m = ApplyPatch(machine, patch)]]
  /\ UNCHANGED <<driver, extvars, triggers, dbvars, clock, nextId, wvars>>

\* UpdateMachine; on a status change EmitMachineEvent; respond 200
UpdateWrite(s, ok) ==
  /\ req[s].pc = "update_write"
  /\ IF ok
       THEN /\ machines' = UpdateMachine(machines, req[s].m)
            /\ IF req[s].old # req[s].m.status
                 THEN /\ triggers' = GoTriggerEvent(triggers,
                           "machine.status_changed", req[s].m.id,
                           <<req[s].old, req[s].m.status>>)
                      /\ events' = EmitMachineEvent(events, req[s].m.id,
                           "machine.status_changed",
                           <<req[s].old, req[s].m.status>>)
                 ELSE UNCHANGED <<triggers, events>>
            /\ req' = [req EXCEPT ![s] = Respond(@, 200, req[s].m.id, 0)]
       ELSE /\ req' = [req EXCEPT ![s] = Respond(@, 500, 0, 0)]
            /\ UNCHANGED <<machines, events, triggers>>
  /\ UNCHANGED <<driver, extvars, metrics, builds, clock, nextId, issued, wvars>>

\* ------------------------------------------------- DELETE /machines/{id}
\* DeleteMachine: 204, or 500 when the statement fails
DeleteExec(s, id, ok) ==
  /\ Accept(s)
  /\ IF ok /\ ~(FKEnforced /\ Referenced(builds, id))
       THEN /\ machines' = DeleteMachine(machines, id)
            /\ events' = CascadeEvents(events, id)
            /\ metrics' = CascadeMetrics(metrics, id)
            /\ power_operations' = CascadePower(power_operations, id)
            /\ group_memberships' = CascadeMemberships(group_memberships, id)
            /\ req' = [req EXCEPT ![s] = Respond(NewReq("delete"), 204, id, 0)]
       ELSE /\ req' = [req EXCEPT ![s] = Respond(NewReq("delete"), 500, id, 0)]
            /\ UNCHANGED <<machines, events, metrics, power_operations,
                           group_memberships>>
  /\ UNCHANGED <<driver, keptvars, triggers, builds, clock, nextId, wvars>>

\* ------------------------------------------------- POST /machines/{id}/build
\* GetMachine; 404 without a machine, 400 without a configuration
BuildGet(s, id, ok) ==
  /\ Accept(s)
  /\ LET r == [NewReq("build") EXCEPT !.mid = id]
         machine == GetMachine(machines, id) IN
     req' = [req EXCEPT ![s] =
       IF ~ok THEN Respond(r, 500, 0, 0)
       ELSE IF machine = NilMachine THEN Respond(r, 404, 0, 0)
       ELSE IF machine.nixos_config = "" THEN Respond(r, 400, 0, 0)
       ELSE [r EXCEPT !.pc = "build_create", !.m = machine]]
  /\ UNCHANGED <<driver, extvars, triggers, dbvars, clock, nextId, wvars>>

\* CreateBuild(machine.ID, machine.NixOSConfig); the handler never looks for
\* a build of the machine that is still pending or building
BuildCreate(s, ok) ==
  /\ req[s].pc = "build_create"
  /\ IF ok /\ ~(FKEnforced /\ req[s].m.id \notin DOMAIN machines)
       THEN /\ builds' = CreateBuild(builds, nextId, req[s].m.id,
                                     req[s].m.nixos_config, clock)
            /\ nextId' = nextId + 1
            /\ clock' = clock + 1
            /\ req' = [req EXCEPT ![s].pc = "build_update",
                                  ![s].bid = nextId,
                                  ![s].old = req[s].m.status,
                                  ![s].m = BuildingMachine(req[s].m, nextId)]
       ELSE /\ req' = [req EXCEPT ![s] = Respond(@, 500, 0, 0)]
            /\ UNCHANGED <<builds, nextId, clock>>
  /\ UNCHANGED <<driver, extvars, triggers, metrics, machines, events, issued, wvars>>

\* UpdateMachine (a failure is logged only), EmitMachineEvent; respond 201
BuildUpdate(s, ok) ==
  /\ req[s].pc = "build_update"
  /\ machines' = IF ok THEN UpdateMachine(machines, req[s].m) ELSE machines
  /\ triggers' =
       LET started == GoTriggerEvent(triggers, "machine.build_started",
                                     req[s].m.id, <<req[s].bid>>) IN
       IF req[s].old # req[s].m.status
         THEN GoTriggerEvent(started, "machine.status_changed", req[s].m.id,
                             <<req[s].old, req[s].m.status>>)
         ELSE started
  /\ events' = EmitMachineEvent(events, req[s].m.id, "machine.build_started",
                                 <<req[s].bid>>)
  /\ req' = [req EXCEPT ![s] = Respond(@, 201, req[s].m.id, req[s].bid)]
  /\ UNCHANGED <<driver, extvars, metrics, builds, clock, nextId, issued, wvars>>

\* ------------------------------------------------- POST /machines/{id}/metrics
\* GetMachine; 500 on an error, 404 without a machine; decode the body
MetricsGet(s, id, ok) ==
  /\ Accept(s)
  /\ LET r == [NewReq("metrics") EXCEPT !.mid = id]
         machine == GetMachine(machines, id) IN
     req' = [req EXCEPT ![s] =
       IF ~ok THEN Respond(r, 500, 0, 0)
       ELSE IF machine = NilMachine THEN Respond(r, 404, 0, 0)
       ELSE [r EXCEPT !.pc = "metrics_create", !.m = machine]]
  /\ UNCHANGED <<driver, extvars, triggers, dbvars, clock, nextId, wvars>>

\* CreateMachineMetrics, 500 on an error; then now := time.Now() and
\* machine.LastSeenAt = &now on the machine read at the start
MetricsCreate(s, ok) ==
  /\ req[s].pc = "metrics_create"
  /\ IF ok /\ ~(FKEnforced /\ req[s].m.id \notin DOMAIN machines)
       THEN /\ metrics' = CreateMachineMetrics(metrics, req[s].m.id)
            /\ req' = [req EXCEPT ![s].pc = "metrics_touch",
                                  ![s].m = Seen(req[s].m, clock)]
            /\ clock' = clock + 1
       ELSE /\ req' = [req EXCEPT ![s] = Respond(@, 500, 0, 0)]
            /\ UNCHANGED <<metrics, clock>>
  /\ UNCHANGED <<driver, extvars, triggers, machines, builds, events, nextId,
                 issued, wvars>>

\* UpdateMachine(machine); a failure is logged only; respond 201
MetricsTouch(s, ok) ==
  /\ req[s].pc = "metrics_touch"
  /\ machines' = IF ok THEN UpdateMachine(machines, req[s].m) ELSE machines
  /\ req' = [req EXCEPT ![s] = Respond(@, 201, req[s].m.id, 0)]
  /\ UNCHANGED <<driver, extvars, triggers, builds, events, metrics, clock,
                 nextId, issued, wvars>>

\* ------------------------------------------------- builder: worker loop
\* SELECT ... FROM builds WHERE status = 'pending' ORDER BY created_at ASC
\* LIMIT 1: the ids of the rows the query returns (none or one)
Pending(bs) == {b \in DOMAIN bs : bs[b].status = "pending"}
\* the query without ORDER BY created_at: any pending row may come back
getPendingBuildsUnordered(bs) == Pending(bs)

getPendingBuilds(bs) ==
  {b \in Pending(bs) : \A c \in Pending(bs) : bs[b].created_at <= bs[c].created_at}

\* rows.Scan fills id, machine_id, status, config and created_at only
Scanned(row) ==
  [id |-> row.id, machine_id |-> row.machine_id, status |-> row.status,
   config |-> row.config, log_output |-> "", error |-> "",
   artifact_url |-> "", created_at |-> row.created_at, completed_at |-> Null]

\* the process dies: an unrecovered panic, or a stop from outside
Dead ==
  /\ alive' = FALSE
  /\ wpc' = "idle"
  /\ wbuild' = NoBuild
  /\ wmachine' = NilMachine
  /\ werr' = ""

\* main: the process starts and spawns the worker goroutine
BuilderStart ==
  /\ ~alive
  /\ alive' = TRUE
  /\ UNCHANGED <<driver, extvars, triggers, dbvars, clock, nextId, issued, req,
                 wpc, wbuild, wmachine, werr>>

\* one tick of the worker: getPendingBuilds (an error skips the tick, as
\* does an empty result) and the start of the range loop
WorkerTick(ok) ==
  /\ alive /\ wpc = "idle"
  /\ ok
  /\ \E b \in getPendingBuilds(builds) :
       /\ wbuild' = Scanned(builds[b])
       /\ wpc' = "mark_building"
  /\ UNCHANGED <<driver, extvars, triggers, dbvars, clock, nextId, issued, req,
                 alive, wmachine, werr>>

\* processBuild: build.Status = "building"; UpdateBuild, return on error
MarkBuilding(ok) ==
  /\ alive /\ wpc = "mark_building"
  /\ LET b == [wbuild EXCEPT !.status = "building"] IN
     IF ok
       THEN /\ builds' = UpdateBuild(builds, b)
            /\ wbuild' = b
            /\ wpc' = "get_machine"
       ELSE /\ wbuild' = NoBuild
            /\ wpc' = "idle"
            /\ UNCHANGED builds
  /\ UNCHANGED <<driver, extvars, triggers, metrics, machines, events, clock, nextId, issued, req,
                 alive, wmachine, werr>>

\* processBuild: GetMachine; only an error goes to failBuild, a missing row
\* comes back as a nil machine with a nil error
ProcGetMachine(ok) ==
  /\ alive /\ wpc = "get_machine"
  /\ IF ok
       THEN /\ wmachine' = GetMachine(machines, wbuild.machine_id)
            /\ wpc' = "run"
            /\ UNCHANGED werr
       ELSE /\ werr' = "Failed to get machine"
            /\ wpc' = "fail_build"
            /\ UNCHANGED wmachine
  /\ UNCHANGED <<driver, extvars, triggers, dbvars, clock, nextId, issued, req, alive, wbuild>>

\* what the file system and nix-build may answer during one run
RunOutcomes ==
  {"mkdir_fails", "write_fails", "nix_fails", "outdir_fails",
   "kernel_fails", "initrd_fails", "built"}

RunError(o) ==
  CASE o = "mkdir_fails"  -> "Failed to create build directory"
    [] o = "write_fails"  -> "Failed to write config"
    [] o = "nix_fails"    -> "Build failed"
    [] o = "outdir_fails" -> "Failed to create output directory"
    [] o = "kernel_fails" -> "Failed to copy kernel"
    [] o = "initrd_fails" -> "Failed to copy initrd"
    [] OTHER -> ""

\* processBuild from MkdirAll to the second copyFile.  machine.ServiceTag is
\* read once the config file is written: with a nil machine that read is a
\* nil dereference, and the panic ends the process.  A copyFile that fails
\* here fails at os.ReadFile, before its destination is opened.  The two
\* copies are one step where nothing reads the artifact tree; RunBuild,
\* CopyOpen and CopyWrite take the same code one file operation at a time
ProcRun(o) ==
  /\ alive /\ wpc = "run"
  /\ IF o \in {"mkdir_fails", "write_fails"}
       THEN /\ werr' = RunError(o)
            /\ wpc' = "fail_build"
            /\ UNCHANGED <<alive, wbuild, wmachine>>
       ELSE IF wmachine = NilMachine
         THEN Dead
         ELSE /\ wbuild' = [wbuild EXCEPT !.log_output = "nix-build output"]
              /\ IF o = "built"
                   THEN wpc' = "write_build" /\ UNCHANGED werr
                   ELSE wpc' = "fail_build" /\ werr' = RunError(o)
              /\ UNCHANGED <<alive, wmachine>>
  /\ files' =
       IF wmachine # NilMachine /\ o \in {"initrd_fails", "built"}
         THEN LET k == copyFile(files, KernelPath(wmachine.service_tag),
                                wbuild.id) IN
              IF o = "built"
                THEN copyFile(k, InitrdPath(wmachine.service_tag), wbuild.id)
                ELSE k
         ELSE files
  /\ UNCHANGED <<driver, sidevars, templates, bootvars, hookvars, triggers, dbvars, clock, nextId, issued, req>>

\* processBuild: mark the build success, now := time.Now(), UpdateBuild;
\* return on error
WriteBuild(ok) ==
  /\ alive /\ wpc = "write_build"
  /\ LET b == SuccessBuild(wbuild, wmachine.service_tag, clock) IN
     IF ok
       THEN /\ builds' = UpdateBuild(builds, b)
            /\ wbuild' = b
            /\ wpc' = "write_machine"
            /\ UNCHANGED wmachine
       ELSE /\ wbuild' = NoBuild
            /\ wmachine' = NilMachine
            /\ wpc' = "idle"
            /\ UNCHANGED builds
  /\ clock' = clock + 1
  /\ UNCHANGED <<driver, extvars, triggers, metrics, machines, events, nextId, issued, req, alive, werr>>

\* processBuild: the machine read before the run is written back as ready
WriteMachine(ok) ==
  /\ alive /\ wpc = "write_machine"
  /\ machines' = IF ok THEN UpdateMachine(machines, ReadyMachine(wmachine, wbuild))
                       ELSE machines
  /\ wbuild' = NoBuild
  /\ wmachine' = NilMachine
  /\ wpc' = "idle"
  /\ UNCHANGED <<driver, extvars, triggers, metrics, builds, events, clock, nextId, issued, req,
                 alive, werr>>

\* failBuild: status failed, the error, completed_at; UpdateBuild, whose
\* error is logged only
FailBuild(ok) ==
  /\ alive /\ wpc = "fail_build"
  /\ LET b == FailedBuild(wbuild, werr, clock) IN
     /\ builds' = IF ok THEN UpdateBuild(builds, b) ELSE builds
     /\ wbuild' = b
  /\ clock' = clock + 1
  /\ wpc' = "fail_get"
  /\ UNCHANGED <<driver, extvars, triggers, metrics, machines, events, nextId, issued, req,
                 alive, wmachine, werr>>

\* failBuild: GetMachine again; err == nil also holds for a missing row, and
\* machine.Status = ... then dereferences nil
FailGetMachine(ok) ==
  /\ alive /\ wpc = "fail_get"
  /\ LET m == GetMachine(machines, wbuild.machine_id) IN
     IF ~ok
       THEN /\ wpc' = "idle"
            /\ wbuild' = NoBuild
            /\ wmachine' = NilMachine
            /\ werr' = ""
            /\ UNCHANGED alive
       ELSE IF m = NilMachine
         THEN Dead
         ELSE /\ wmachine' = FailedMachine(m)
              /\ wpc' = "fail_write"
              /\ UNCHANGED <<alive, wbuild, werr>>
  /\ UNCHANGED <<driver, extvars, triggers, dbvars, clock, nextId, issued, req>>

\* failBuild: UpdateMachine, result ignored
FailWriteMachine(ok) ==
  /\ alive /\ wpc = "fail_write"
  /\ machines' = IF ok THEN UpdateMachine(machines, wmachine) ELSE machines
  /\ wpc' = "idle"
  /\ wbuild' = NoBuild
  /\ wmachine' = NilMachine
  /\ werr' = ""
  /\ UNCHANGED <<driver, extvars, triggers, metrics, builds, events, clock, nextId, issued, req, alive>>

\* the process is stopped from outside (a signal, a host restart)
BuilderStop ==
  /\ alive
  /\ Dead
  /\ UNCHANGED <<driver, extvars, triggers, dbvars, clock, nextId, issued, req>>

\* the {id} of a request path: any uuid drawn so far, so also one of a deleted
\* machine or of a build, which matches no machine row
MachineIds == 1..(nextId - 1)

Next ==
  \/ \E s \in Slots, tag \in Tags : EnrollLookup(s, tag, TRUE)
  \/ \E s \in Slots : EnrollTouch(s, TRUE)
  \/ \E s \in Slots : EnrollCreate(s, TRUE)
  \/ \E s \in Slots, id \in MachineIds, p \in Patches : UpdateGet(s, id, p, TRUE)
  \/ \E s \in Slots : UpdateWrite(s, TRUE)
  \/ \E s \in Slots, id \in MachineIds : DeleteExec(s, id, TRUE)
  \/ \E s \in Slots, id \in MachineIds : BuildGet(s, id, TRUE)
  \/ \E s \in Slots : BuildCreate(s, TRUE)
  \/ \E s \in Slots : BuildUpdate(s, TRUE)
  \/ \E s \in Slots, id \in MachineIds : MetricsGet(s, id, TRUE)
  \/ \E s \in Slots : MetricsCreate(s, TRUE)
  \/ \E s \in Slots : MetricsTouch(s, TRUE)
  \/ BuilderStart
  \/ WorkerTick(TRUE)
  \/ MarkBuilding(TRUE)
  \/ ProcGetMachine(TRUE)
  \/ \E o \in RunOutcomes : ProcRun(o)
  \/ WriteBuild(TRUE)
  \/ WriteMachine(TRUE)
  \/ FailBuild(TRUE)
  \/ FailGetMachine(TRUE)
  \/ FailWriteMachine(TRUE)

\* the store answers every statement and nothing stops the builder
Spec == Init /\ [][Next]_vars

\* one enrolled tag is enough to show what a failing statement leaves behind
FaultTags == {"SVC-001"}

\* any statement may fail (ok = FALSE: a lost connection, a locked database
\* file) and the builder process may be stopped and started again
NextFault ==
  \/ \E s \in Slots, tag \in FaultTags, ok \in BOOLEAN : EnrollLookup(s, tag, ok)
  \/ \E s \in Slots, ok \in BOOLEAN : EnrollTouch(s, ok)
  \/ \E s \in Slots, ok \in BOOLEAN : EnrollCreate(s, ok)
  \/ \E s \in Slots, id \in MachineIds, p \in Patches, ok \in BOOLEAN :
        UpdateGet(s, id, p, ok)
  \/ \E s \in Slots, ok \in BOOLEAN : UpdateWrite(s, ok)
  \/ \E s \in Slots, id \in MachineIds, ok \in BOOLEAN : DeleteExec(s, id, ok)
  \/ \E s \in Slots, id \in MachineIds, ok \in BOOLEAN : BuildGet(s, id, ok)
  \/ \E s \in Slots, ok \in BOOLEAN : BuildCreate(s, ok)
  \/ \E s \in Slots, ok \in BOOLEAN : BuildUpdate(s, ok)
  \/ \E s \in Slots, id \in MachineIds, ok \in BOOLEAN : MetricsGet(s, id, ok)
  \/ \E s \in Slots, ok \in BOOLEAN : MetricsCreate(s, ok)
  \/ \E s \in Slots, ok \in BOOLEAN : MetricsTouch(s, ok)
  \/ BuilderStart
  \/ BuilderStop
  \/ \E ok \in BOOLEAN : WorkerTick(ok)
  \/ \E ok \in BOOLEAN : MarkBuilding(ok)
  \/ \E ok \in BOOLEAN : ProcGetMachine(ok)
  \/ \E o \in RunOutcomes : ProcRun(o)
  \/ \E ok \in BOOLEAN : WriteBuild(ok)
  \/ \E ok \in BOOLEAN : WriteMachine(ok)
  \/ \E ok \in BOOLEAN : FailBuild(ok)
  \/ \E ok \in BOOLEAN : FailGetMachine(ok)
  \/ \E ok \in BOOLEAN : FailWriteMachine(ok)

SpecFault == Init /\ [][NextFault]_vars

\* ------------------------------------------ builder: publishing, by file
\* processBuild from MkdirAll(buildPath) to MkdirAll(outputPath): as
\* ProcRun, up to the first copyFile
BuildOutcomes ==
  {"mkdir_fails", "write_fails", "nix_fails", "outdir_fails", "built"}

RunBuild(o) ==
  /\ alive /\ wpc = "run"
  /\ IF o \in {"mkdir_fails", "write_fails"}
       THEN /\ werr' = RunError(o)
            /\ wpc' = "fail_build"
            /\ UNCHANGED <<alive, wbuild, wmachine>>
       ELSE IF wmachine = NilMachine
         THEN Dead
         ELSE /\ wbuild' = [wbuild EXCEPT !.log_output = "nix-build output"]
              /\ IF o = "built"
                   THEN wpc' = "kernel_open" /\ UNCHANGED werr
                   ELSE wpc' = "fail_build" /\ werr' = RunError(o)
              /\ UNCHANGED <<alive, wmachine>>
  /\ UNCHANGED <<driver, extvars, triggers, dbvars, clock, nextId, issued, req>>

\* the destination of the copy the worker is at
CopyPath ==
  IF wpc \in {"kernel_open", "kernel_write"}
    THEN KernelPath(wmachine.service_tag)
    ELSE InitrdPath(wmachine.service_tag)

\* copyFile: os.ReadFile(src), then os.WriteFile opens dst itself, under
\* its final name; a failed read goes to failBuild
CopyOpen(ok) ==
  /\ alive /\ wpc \in {"kernel_open", "initrd_open"}
  /\ IF ok
       THEN /\ files' = OpenTrunc(files, CopyPath, wbuild.id)
            /\ wpc' = IF wpc = "kernel_open" THEN "kernel_write"
                                             ELSE "initrd_write"
            /\ UNCHANGED werr
       ELSE /\ werr' = IF wpc = "kernel_open" THEN RunError("kernel_fails")
                                              ELSE RunError("initrd_fails")
            /\ wpc' = "fail_build"
            /\ UNCHANGED files
  /\ UNCHANGED <<driver, sidevars, templates, bootvars, hookvars, triggers, dbvars, clock, nextId, issued, req,
                 alive, wbuild, wmachine>>

\* os.WriteFile: one write call; after the last one the file is closed and
\* the worker goes on to the next copy, or to the write-back
CopyWrite(ok) ==
  /\ alive /\ wpc \in {"kernel_write", "initrd_write"}
  /\ IF ok
       THEN /\ files' = WriteChunk(files, CopyPath)
            /\ wpc' = IF files[CopyPath].len + 1 < NumChunks THEN wpc
                       ELSE IF wpc = "kernel_write" THEN "initrd_open"
                       ELSE "write_build"
            /\ UNCHANGED werr
       ELSE /\ werr' = IF wpc = "kernel_write" THEN RunError("kernel_fails")
                                               ELSE RunError("initrd_fails")
            /\ wpc' = "fail_build"
            /\ UNCHANGED files
  /\ UNCHANGED <<driver, sidevars, templates, bootvars, hookvars, triggers, dbvars, clock, nextId, issued, req,
                 alive, wbuild, wmachine>>

\* ------------------------------ chain-boot: GET /nixos/machines/{tag}.ipxe
\* what http.Get(apiURL/machines/by-servicetag/tag) may come back with
ApiAnswers == {"error", "404", "500", "200"}

\* checkMachine: (false, "") on an error and on any status but 200;
\* (true, "") on 200, the body is not parsed
checkMachine(answer) ==
  IF answer = "200" THEN [exists |-> TRUE, hostname |-> ""]
                    ELSE [exists |-> FALSE, hostname |-> ""]

\* handleMachineIPXE up to the iPXEConfig: the lookup
BootLookup(tag, answer) ==
  /\ boot.pc \in {"idle", "done"}
  /\ issued < MaxReqs
  /\ issued' = issued + 1
  /\ boot' = [IdleBoot EXCEPT !.pc = "render", !.tag = tag,
                              !.exists = checkMachine(answer).exists,
                              !.hostname = checkMachine(answer).hostname]
  /\ UNCHANGED <<driver, sidevars, templates, hookvars, triggers, dbvars, clock, nextId, req, wvars, files,
                 served>>

\* the script a template renders from the iPXEConfig
Execute(template, tag, hostname) ==
  [template |-> template, service_tag |-> tag,
   hostname |-> IF template = "machine" THEN hostname ELSE ""]

\* handleMachineIPXE: os.Stat of the bzImage when the machine exists and
\* has a hostname; the machine template, else the registration template
BootRender ==
  /\ boot.pc = "render"
  /\ boot' = [boot EXCEPT !.pc = "done", !.resp =
       IF /\ boot.exists /\ boot.hostname # ""
          /\ KernelPath(boot.tag) \in DOMAIN files
         THEN Execute("machine", boot.tag, boot.hostname)
         ELSE Execute("registration", boot.tag, boot.hostname)]
  /\ UNCHANGED <<driver, sidevars, templates, hookvars, triggers, dbvars, clock, nextId, issued, req, wvars,
                 files, served>>

\* GET /images/machines/{tag}/{name}: http.FileServer sends what the file
\* holds when it is read
ServeFile(path) ==
  /\ issued < MaxReqs
  /\ issued' = issued + 1
  /\ served' = ReadFile(files, path)
  /\ UNCHANGED <<driver, sidevars, templates, hookvars, triggers, dbvars, clock, nextId, req, wvars, files,
                 boot>>

\* a PUT body that names the machine and configures it
BootPatches ==
  {[hostname |-> "h1", description |-> "", nixos_config |-> "cfgA",
    bmc_info |-> NilBMC]}
ArtifactPaths == {KernelPath(t) : t \in FaultTags} \cup
                 {InitrdPath(t) : t \in FaultTags}

\* the machine handlers and the worker with the copies taken file operation
\* by file operation, next to the chain-boot server that reads the tree
NextBoot ==
  \/ \E s \in Slots, tag \in FaultTags : EnrollLookup(s, tag, TRUE)
  \/ \E s \in Slots : EnrollTouch(s, TRUE)
  \/ \E s \in Slots : EnrollCreate(s, TRUE)
  \/ \E s \in Slots, id \in MachineIds, p \in BootPatches : UpdateGet(s, id, p, TRUE)
  \/ \E s \in Slots : UpdateWrite(s, TRUE)
  \/ \E s \in Slots, id \in MachineIds : BuildGet(s, id, TRUE)
  \/ \E s \in Slots : BuildCreate(s, TRUE)
  \/ \E s \in Slots : BuildUpdate(s, TRUE)
  \/ WorkerTick(TRUE)
  \/ MarkBuilding(TRUE)
  \/ ProcGetMachine(TRUE)
  \/ \E o \in BuildOutcomes : RunBuild(o)
  \/ CopyOpen(TRUE)
  \/ CopyWrite(TRUE)
  \/ WriteBuild(TRUE)
  \/ WriteMachine(TRUE)
  \/ FailBuild(TRUE)
  \/ FailGetMachine(TRUE)
  \/ FailWriteMachine(TRUE)
  \/ \E tag \in FaultTags, a \in ApiAnswers : BootLookup(tag, a)
  \/ BootRender
  \/ \E path \in ArtifactPaths : ServeFile(path)

SpecBoot == Init /\ [][NextBoot]_vars

\* ------------------------------------------------------ webhook service
\* number of rows the webhooks table may hold
MaxHooks == 1

\* net/http's Header.Set stores a key in its canonical form
CanonicalMIMEHeaderKey(k) ==
  CASE k = "content-type" -> "Content-Type"
    [] k = "user-agent" -> "User-Agent"
    [] k = "x-webhook-signature" -> "X-Webhook-Signature"
    [] k = "x-trace" -> "X-Trace"
    [] OTHER -> k

HeaderSet(h, k, v) ==
  [x \in DOMAIN h \cup {CanonicalMIMEHeaderKey(k)} |->
     IF x = CanonicalMIMEHeaderKey(k) THEN v ELSE h[x]]

\* for key, value := range headers { req.Header.Set(key, value) }
RECURSIVE SetAll(_, _)
SetAll(h, custom) ==
  IF DOMAIN custom = {} THEN h
  ELSE LET k == CHOOSE x \in DOMAIN custom : TRUE IN
       SetAll(HeaderSet(h, k, custom[k]),
              [x \in DOMAIN custom \ {k} |-> custom[x]])

\* the bytes of a payload: {event, timestamp, data} marshalled once
EventCode(event) ==
  CASE event = "machine.enrolled" -> 1
    [] event = "machine.status_changed" -> 2
    [] event = "machine.build_started" -> 3
    [] OTHER -> 4
Marshal(event, now, mid) == <<EventCode(event), now, mid>>

RECURSIVE ByteSum(_)
ByteSum(bytes) ==
  IF bytes = <<>> THEN 0 ELSE bytes[1] + ByteSum(Tail(bytes))
KeyCode(secret) == IF secret = "abc" THEN 97 ELSE 0

\* hmac.New(sha256.New, secret); h.Write(payload); h.Sum(nil): the digest,
\* kept as a keyed checksum of the bytes, two bytes long
HmacSha256(secret, payload) ==
  << (ByteSum(payload) * 16 + KeyCode(secret)) % 256,
     (ByteSum(payload) * 3 + KeyCode(secret) * 7 + Len(payload) + 160) % 256 >>

HexDigits ==
  <<"0", "1", "2", "3", "4", "5", "6", "7",
    "8", "9", "a", "b", "c", "d", "e", "f">>
\* hex.EncodeToString: two lower-case digits for every byte
RECURSIVE EncodeToString(_)
EncodeToString(bytes) ==
  IF bytes = <<>> THEN <<>>
  ELSE <<HexDigits[(bytes[1] \div 16) + 1], HexDigits[(bytes[1] % 16) + 1]>>
         \o EncodeToString(Tail(bytes))

generateSignature(payload, secret) == EncodeToString(HmacSha256(secret, payload))

\* the request headers without the step that adds the signature last
RequestHeadersCustomLast(hook, payload) ==
  LET fixed == HeaderSet(HeaderSet(<<>>, "Content-Type", "application/json"),
                         "User-Agent", "Metal-Enrollment-Webhook/1.0")
      signed == IF hook.secret # ""
                  THEN HeaderSet(fixed, "X-Webhook-Signature",
                                 generateSignature(payload, hook.secret))
                  ELSE fixed IN
  SetAll(signed, hook.headers)

\* sendWebhook: Content-Type and User-Agent are set, then every custom
\* header, then X-Webhook-Signature when the webhook has a secret
RequestHeaders(hook, payload) ==
  LET fixed == HeaderSet(HeaderSet(<<>>, "Content-Type", "application/json"),
                         "User-Agent", "Metal-Enrollment-Webhook/1.0")
      custom == SetAll(fixed, hook.headers) IN
  IF hook.secret # ""
    THEN HeaderSet(custom, "X-Webhook-Signature",
                   generateSignature(payload, hook.secret))
    ELSE custom

\* a status that counts as delivered only when it is 200
IsSuccessOnly200(code) == code = 200

\* resp.StatusCode >= 200 && resp.StatusCode < 300
IsSuccess(code) == code >= 200 /\ code < 300

\* maxRetries := webhook.MaxRetries; 0 stands for 3
MaxRetriesOf(hook) == IF hook.max_retries = 0 THEN 3 ELSE hook.max_retries

\* GetWebhooksByEvent: the active webhooks whose events hold the event or "*"
GetWebhooksByEvent(ws, event) ==
  {w \in DOMAIN ws :
     /\ ws[w].active
     /\ \E i \in 1..Len(ws[w].events) :
          ws[w].events[i] = event \/ ws[w].events[i] = "*"}

\* UpdateWebhookDeliveryStatus: last_success or last_failure = now
UpdateWebhookDeliveryStatus(ws, id, success, now) ==
  IF id \in DOMAIN ws
    THEN IF success THEN [ws EXCEPT ![id].last_success = now]
                    ELSE [ws EXCEPT ![id].last_failure = now]
    ELSE ws

\* CreateWebhookDelivery: INSERT of the delivery record
CreateWebhookDelivery(ds, d) == Append(ds, d)

\* bodies of POST /webhooks
RetryInputs == {-1, 0, 2}
HeaderInputs ==
  { <<>>,
    [k \in {"content-type"} |-> "text/plain"],
    [k \in {"x-webhook-signature"} |-> <<"0", "0", "0", "0">>],
    [k \in {"x-trace"} |-> "t1"] }
\* active webhooks for every event, one for machine.build_started first,
\* one that is not active and one without events
HookBodies ==
  [name : {"sink"}, url : {"http://sink/"}, events : {<<"*">>},
   secret : {"", "abc"}, active : {TRUE}, headers : HeaderInputs,
   max_retries : RetryInputs]
  \cup
  [name : {"sink"}, url : {"http://sink/"},
   events : {<<"machine.build_started", "machine.enrolled">>, <<>>},
   secret : {"abc"}, active : BOOLEAN, headers : {<<>>}, max_retries : {0}]

\* what a target may do with one POST: 0 stands for a transport error
HttpOutcomes == {0, 204, 500}

\* handleCreateWebhook: validate, default max_retries 0 to 3, CreateWebhook
CreateWebhookReq(s, body, ok) ==
  /\ apiUp
  /\ Accept(s)
  /\ Cardinality(DOMAIN webhooks) < MaxHooks
  /\ IF body.name = "" \/ body.url = "" \/ Len(body.events) = 0
       THEN /\ req' = [req EXCEPT ![s] = Respond(NewReq("webhook"), 400, 0, 0)]
            /\ UNCHANGED <<webhooks, nextId>>
       ELSE IF ~ok
         THEN /\ req' = [req EXCEPT ![s] = Respond(NewReq("webhook"), 500, 0, 0)]
              /\ UNCHANGED <<webhooks, nextId>>
         ELSE /\ webhooks' =
                   [w \in DOMAIN webhooks \cup {nextId} |->
                      IF w = nextId
                        THEN [id |-> nextId, name |-> body.name, url |-> body.url,
                              events |-> body.events, secret |-> body.secret,
                              active |-> body.active, headers |-> body.headers,
                              max_retries |-> IF body.max_retries = 0 THEN 3
                                              ELSE body.max_retries,
                              last_success |-> Null, last_failure |-> Null]
                        ELSE webhooks[w]]
              /\ nextId' = nextId + 1
              /\ req' = [req EXCEPT ![s] = Respond(NewReq("webhook"), 201, 0, 0)]
  /\ UNCHANGED <<driver, sidevars, templates, files, bootvars, triggers, dbvars, clock, wvars,
                 deliveries, disp, sent, apiUp>>

\* handleEnroll from CreateMachine to the go statement, taken call by call
\* where another goroutine of the process can end it: CreateMachine and
\* go TriggerEvent("machine.enrolled")
EnrollStore(s) ==
  /\ apiUp
  /\ req[s].pc = "enroll_create"
  /\ IF ~TagTaken(machines, req[s].tag)
       THEN /\ machines' = CreateMachine(machines, nextId, req[s].tag)
            /\ nextId' = nextId + 1
            /\ triggers' = GoTriggerEvent(triggers, "machine.enrolled", nextId,
                                           <<req[s].tag>>)
            /\ disp' = [IdleDisp EXCEPT !.pc = "lookup",
                                        !.event = "machine.enrolled",
                                        !.mid = nextId]
            /\ req' = [req EXCEPT ![s].pc = "enroll_emit", ![s].mid = nextId]
       ELSE /\ req' = [req EXCEPT ![s] = Respond(@, 500, 0, 0)]
            /\ UNCHANGED <<machines, nextId, triggers, disp>>
  /\ UNCHANGED <<driver, sidevars, templates, files, bootvars, builds, events, metrics, clock,
                 issued, wvars, webhooks, deliveries, sent, apiUp>>

\* handleEnroll: EmitMachineEvent("machine.enrolled")
EnrollEmit(s) ==
  /\ apiUp
  /\ req[s].pc = "enroll_emit"
  /\ events' = EmitMachineEvent(events, req[s].mid, "machine.enrolled",
                                 <<req[s].tag>>)
  /\ req' = [req EXCEPT ![s].pc = "enroll_respond"]
  /\ UNCHANGED <<driver, extvars, triggers, machines, builds, metrics, clock,
                 nextId, issued, wvars>>

\* handleEnroll: respondJSON(201, machine)
EnrollRespond(s) ==
  /\ apiUp
  /\ req[s].pc = "enroll_respond"
  /\ req' = [req EXCEPT ![s] = Respond(@, 201, req[s].mid, 0)]
  /\ UNCHANGED <<driver, extvars, triggers, dbvars, clock, nextId, issued, wvars>>

\* an unrecovered panic in any goroutine ends the API process with every
\* handler that is still running
Panic ==
  /\ apiUp' = FALSE
  /\ disp' = IdleDisp

\* TriggerEvent: GetWebhooksByEvent (an error is returned to a caller that
\* dropped it), the payload, and go sendWebhook up to its loop
TriggerEvent(ok) ==
  /\ apiUp
  /\ disp.pc = "lookup"
  /\ LET found == GetWebhooksByEvent(webhooks, disp.event) IN
     IF ~ok \/ found = {}
       THEN /\ disp' = IdleDisp
            /\ UNCHANGED clock
       ELSE \E w \in found :
              LET hook == webhooks[w]
                  payload == Marshal(disp.event, clock, disp.mid) IN
              /\ disp' = [disp EXCEPT
                    !.hook = hook,
                    !.maxRetries = MaxRetriesOf(hook),
                    !.attempt = 1,
                    !.pc = IF 1 <= MaxRetriesOf(hook) THEN "attempt"
                                                      ELSE "exhausted",
                    !.delivery = [NoDelivery EXCEPT
                                    !.webhook_id = hook.id,
                                    !.event = hook.events[1],
                                    !.payload = payload]]
              /\ clock' = clock + 1
  /\ UNCHANGED <<driver, sidevars, templates, files, bootvars, triggers, dbvars, nextId, issued,
                 req, wvars, webhooks, deliveries, sent, apiUp>>

\* one turn of the loop of sendWebhook: the request and client.Do
SendAttempt(status) ==
  /\ apiUp
  /\ disp.pc = "attempt"
  /\ sent' = Append(sent,
       [webhook_id |-> disp.hook.id, attempt |-> disp.attempt,
        headers |-> RequestHeaders(disp.hook, disp.delivery.payload),
        body |-> disp.delivery.payload, status |-> status])
  /\ LET d == [disp.delivery EXCEPT !.attempts = disp.attempt]
         more == IF disp.attempt < disp.maxRetries THEN "attempt"
                                                   ELSE "exhausted" IN
     IF status = 0
       THEN /\ disp' = [disp EXCEPT !.delivery = d, !.lastErr = "transport",
                                    !.attempt = @ + 1, !.pc = more]
            /\ UNCHANGED clock
       ELSE IF IsSuccess(status)
         THEN /\ disp' = [disp EXCEPT
                    !.delivery = [d EXCEPT !.status_code = status,
                                           !.success = TRUE,
                                           !.completed_at = clock],
                    !.pc = "mark_success"]
              /\ clock' = clock + 1
         ELSE /\ disp' = [disp EXCEPT
                    !.delivery = [d EXCEPT !.status_code = status],
                    !.lastErr = "HTTP status", !.attempt = @ + 1, !.pc = more]
              /\ UNCHANGED clock
  /\ UNCHANGED <<driver, sidevars, templates, files, bootvars, triggers, dbvars, nextId, issued,
                 req, wvars, webhooks, deliveries, apiUp>>

\* sendWebhook: UpdateWebhookDeliveryStatus(webhook.ID, true), result dropped
MarkSuccess(ok) ==
  /\ apiUp
  /\ disp.pc = "mark_success"
  /\ webhooks' = IF ok THEN UpdateWebhookDeliveryStatus(webhooks, disp.hook.id,
                                                        TRUE, clock)
                       ELSE webhooks
  /\ clock' = clock + 1
  /\ disp' = [disp EXCEPT !.pc = "store"]
  /\ UNCHANGED <<driver, sidevars, templates, files, bootvars, triggers, dbvars, nextId, issued,
                 req, wvars, deliveries, sent, apiUp>>

\* sendWebhook after the loop without a success: lastErr.Error(), which is a
\* nil dereference when the loop made no turn; then
\* UpdateWebhookDeliveryStatus(webhook.ID, false), result dropped
Exhausted(ok) ==
  /\ apiUp
  /\ disp.pc = "exhausted"
  /\ IF disp.lastErr = ""
       THEN /\ Panic
            /\ UNCHANGED <<webhooks, clock>>
       ELSE /\ disp' = [disp EXCEPT
                    !.delivery = [@ EXCEPT !.error = disp.lastErr,
                                           !.completed_at = clock],
                    !.pc = "store"]
            /\ webhooks' = IF ok
                 THEN UpdateWebhookDeliveryStatus(webhooks, disp.hook.id,
                                                  FALSE, clock + 1)
                 ELSE webhooks
            /\ clock' = clock + 2
            /\ UNCHANGED apiUp
  /\ UNCHANGED <<driver, sidevars, templates, files, bootvars, triggers, dbvars, nextId, issued,
                 req, wvars, deliveries, sent>>

\* sendWebhook: CreateWebhookDelivery, an error is logged only
StoreDelivery(ok) ==
  /\ apiUp
  /\ disp.pc = "store"
  /\ deliveries' = IF ok THEN CreateWebhookDelivery(deliveries, disp.delivery)
                         ELSE deliveries
  /\ disp' = IdleDisp
  /\ UNCHANGED <<driver, sidevars, templates, files, bootvars, triggers, dbvars, clock, nextId,
                 issued, req, wvars, webhooks, sent, apiUp>>

\* webhook administration, enrollment of a tag not stored yet (which
\* triggers), and the dispatch
NextHook ==
  \/ \E s \in Slots, body \in HookBodies : CreateWebhookReq(s, body, TRUE)
  \/ \E s \in Slots, tag \in FaultTags :
       apiUp /\ machines = <<>> /\ EnrollLookup(s, tag, TRUE)
  \/ \E s \in Slots : EnrollStore(s)
  \/ \E s \in Slots : EnrollEmit(s)
  \/ \E s \in Slots : EnrollRespond(s)
  \/ TriggerEvent(TRUE)
  \/ \E status \in HttpOutcomes : SendAttempt(status)
  \/ MarkSuccess(TRUE)
  \/ Exhausted(TRUE)
  \/ StoreDelivery(TRUE)

SpecHook == Init /\ [][NextHook]_vars

\* -------------------------------------------------------- templates
\* a BMCInfo; a nil *BMCInfo is NilBMC
BMC(ip, enabled) == [nil |-> FALSE, ip_address |-> ip, enabled |-> enabled]

\* the text "{{" + key + "}}"
Placeholder(key) == "{{" \o key \o "}}"

\* bodies of POST /templates. nixos_config is the text cut into pieces, a
\* placeholder being a piece of its own; variables is the decoded map,
\* empty when the body has none; bmc_config is NilBMC when the body has none
TemplateBodies ==
  { [name |-> "plain", nixos_config |-> <<"tpl">>, variables |-> <<>>,
     bmc_config |-> BMC("10.0.0.9", TRUE)],
    [name |-> "named",
     nixos_config |-> <<"host=", Placeholder("hostname"),
                        " tag=", Placeholder("service_tag"),
                        " mac=", Placeholder("mac_address"),
                        " dc=", Placeholder("dc"),
                        " rack=", Placeholder("rack")>>,
     variables |-> [k \in {"hostname", "dc"} |->
                      IF k = "hostname" THEN "node" ELSE "ams"],
     bmc_config |-> BMC("10.0.0.9", FALSE)],
    [name |-> "tagged",
     nixos_config |-> <<"tag=", Placeholder("service_tag")>>,
     variables |-> [k \in {"service_tag"} |-> "none"],
     bmc_config |-> BMC("", TRUE)],
    [name |-> "", nixos_config |-> <<"tpl">>, variables |-> <<>>,
     bmc_config |-> BMC("10.0.0.9", TRUE)],
    [name |-> "bare", nixos_config |-> <<"tpl">>, variables |-> <<>>,
     bmc_config |-> NilBMC] }

\* strings.ReplaceAll(config, "{{"+key+"}}", value)
ReplaceAll(config, key, value) ==
  [i \in DOMAIN config |->
     IF config[i] = Placeholder(key) THEN value ELSE config[i]]

\* the pieces as one string
RECURSIVE Join(_)
Join(text) == IF text = <<>> THEN "" ELSE Head(text) \o Join(Tail(text))

\* the orders in which range can visit the keys of a map
Orders(variables) ==
  {o \in [1..Cardinality(DOMAIN variables) -> DOMAIN variables] :
     \A i, j \in DOMAIN o : o[i] = o[j] => i = j}

\* handleApplyTemplate: every key of the template's variables is replaced
\* by the machine's value where it has one, by the template's value
\* otherwise; order is the order in which range visits the keys
RECURSIVE Substitute(_, _, _, _)
Substitute(config, variables, order, m) ==
  IF order = <<>> THEN config
  ELSE LET key == Head(order)
           actualValue ==
             IF key = "hostname"
               THEN (IF m.hostname # "" THEN m.hostname ELSE variables[key])
             ELSE IF key = "service_tag" THEN m.service_tag
             ELSE IF key = "mac_address" THEN m.mac_address
             ELSE variables[key] IN
       Substitute(ReplaceAll(config, key, actualValue), variables,
                  Tail(order), m)

NilTemplate == [id |-> 0]
GetTemplate(ts, id) == IF id \in DOMAIN ts THEN ts[id] ELSE NilTemplate

\* handleCreateTemplate: name and nixos_config are required, the name is
\* unique (409), CreateTemplate. CreateTemplate calls
\* template.BMCConfig.Value(), a method with a value receiver: without a
\* bmc_config the handler panics on the nil pointer and net/http drops the
\* request
CreateTemplateReq(s, body, ok) ==
  /\ Accept(s)
  /\ IF body.name = "" \/ body.nixos_config = <<>>
       THEN /\ req' = [req EXCEPT ![s] = Respond(NewReq("template"), 400, 0, 0)]
            /\ UNCHANGED <<templates, nextId>>
       ELSE IF ~ok
         THEN /\ req' = [req EXCEPT ![s] = Respond(NewReq("template"), 500, 0, 0)]
              /\ UNCHANGED <<templates, nextId>>
         ELSE IF \E t \in DOMAIN templates : templates[t].name = body.name
           THEN /\ req' = [req EXCEPT ![s] =
                             Respond(NewReq("template"), 409, 0, 0)]
                /\ UNCHANGED <<templates, nextId>>
         ELSE IF body.bmc_config = NilBMC
           THEN /\ req' = [req EXCEPT ![s] = Aborted(NewReq("template"))]
                /\ UNCHANGED <<templates, nextId>>
           ELSE /\ templates' =
                     [t \in DOMAIN templates \cup {nextId} |->
                        IF t = nextId
                          THEN [id |-> nextId, name |-> body.name,
                                nixos_config |-> body.nixos_config,
                                variables |-> body.variables,
                                bmc_config |-> body.bmc_config]
                          ELSE templates[t]]
                /\ nextId' = nextId + 1
                /\ req' = [req EXCEPT ![s] =
                             Respond(NewReq("template"), 201, 0, 0)]
  /\ UNCHANGED <<driver, sidevars, files, bootvars, hookvars, triggers,
                 dbvars, clock, wvars>>

\* ------------------------- POST /machines/{id}/template/{template_id}
\* GetMachine: 500 on an error, 404 without a machine
ApplyGet(s, id, tid, ok) ==
  /\ Accept(s)
  /\ LET r == [NewReq("apply") EXCEPT !.mid = id, !.tid = tid]
         machine == GetMachine(machines, id) IN
     req' = [req EXCEPT ![s] =
       IF ~ok THEN Respond(r, 500, 0, 0)
       ELSE IF machine = NilMachine THEN Respond(r, 404, 0, 0)
       ELSE [r EXCEPT !.pc = "apply_template", !.m = machine,
                      !.old = machine.status]]
  /\ UNCHANGED <<driver, extvars, triggers, dbvars, clock, nextId, wvars>>

\* GetTemplate (500, 404); the substituted text becomes the machine's
\* configuration, its status configured, its bmc_info the template's when
\* it has none
ApplyTemplate(s, ok) ==
  /\ req[s].pc = "apply_template"
  /\ LET template == GetTemplate(templates, req[s].tid) IN
     IF ~ok THEN req' = [req EXCEPT ![s] = Respond(@, 500, 0, 0)]
     ELSE IF template = NilTemplate
       THEN req' = [req EXCEPT ![s] = Respond(@, 404, 0, 0)]
     ELSE \E order \in Orders(template.variables) :
       req' = [req EXCEPT ![s] =
         [@ EXCEPT !.pc = "apply_write",
            !.m = [@ EXCEPT
              !.nixos_config = Join(Substitute(template.nixos_config,
                                 template.variables, order, req[s].m)),
              !.status = StatusConfigured,
              !.bmc_info = IF template.bmc_config # NilBMC /\ @ = NilBMC
                             THEN template.bmc_config ELSE @]]]
  /\ UNCHANGED <<driver, extvars, triggers, dbvars, clock, nextId, issued,
                 wvars>>

\* UpdateMachine (500 on an error), TriggerEvent("machine.template_applied")
\* with its result dropped; no EmitMachineEvent; respond 200
ApplyWrite(s, ok) ==
  /\ req[s].pc = "apply_write"
  /\ IF ok
       THEN /\ machines' = UpdateMachine(machines, req[s].m)
            /\ triggers' = GoTriggerEvent(triggers, "machine.template_applied",
                                           req[s].m.id, <<req[s].tid>>)
            /\ req' = [req EXCEPT ![s] = Respond(@, 200, req[s].m.id, 0)]
       ELSE /\ req' = [req EXCEPT ![s] = Respond(@, 500, 0, 0)]
            /\ UNCHANGED <<machines, triggers>>
  /\ UNCHANGED <<driver, extvars, builds, events, metrics, clock, nextId,
                 issued, wvars>>

\* ------------------------------------------------------- POST /bulk
\* the data of a bulk update: a key that is absent, or no string, leaves the
\* type assertion false
BulkData ==
  { [has_hostname |-> TRUE, hostname |-> "hb",
     has_description |-> FALSE, description |-> "",
     has_nixos_config |-> FALSE, nixos_config |-> ""],
    [has_hostname |-> FALSE, hostname |-> "",
     has_description |-> TRUE, description |-> "",
     has_nixos_config |-> TRUE, nixos_config |-> "cfgB"] }
NoData ==
  [has_hostname |-> FALSE, hostname |-> "",
   has_description |-> FALSE, description |-> "",
   has_nixos_config |-> FALSE, nixos_config |-> ""]
BulkOperations == {"update", "build", "delete", "", "reboot"}

\* bulkUpdate's "Update fields from data"
ApplyData(m, data) ==
  [m EXCEPT
     !.hostname = IF data.has_hostname /\ data.hostname # ""
                    THEN data.hostname ELSE @,
     !.description = IF data.has_description THEN data.description ELSE @,
     !.nixos_config = IF data.has_nixos_config /\ data.nixos_config # ""
                        THEN data.nixos_config ELSE @,
     !.status = IF data.has_nixos_config /\ data.nixos_config # ""
                  THEN StatusConfigured ELSE @]

\* a failure that is counted without its line in result.Errors
ItemFailsUnlisted(r, text) ==
  [r EXCEPT !.result.failure = @ + 1, !.ids = Tail(@), !.m = NilMachine]

\* result.FailureCount++ with its line in result.Errors, continue
ItemFails(r, text) ==
  [r EXCEPT !.result.failure = @ + 1,
            !.result.errors = Append(@, <<Head(r.ids), text>>),
            !.ids = Tail(@), !.m = NilMachine]
\* result.SuccessCount++
ItemSucceeds(r) ==
  [r EXCEPT !.result.success = @ + 1, !.ids = Tail(@), !.m = NilMachine]
\* the loop's next turn, or respondJSON(200, result) after its last
Continue(r) ==
  IF r.ids = <<>>
    THEN [Respond(r, 200, 0, 0) EXCEPT !.op = r.op, !.result = r.result]
    ELSE [r EXCEPT !.pc = "bulk_item"]

\* handleBulkOperation up to the switch: the operation and the ids are
\* required (requests naming a group are left out), an operation that is
\* none of the three answers 400
BulkAccept(s, op, ids, data) ==
  /\ Accept(s)
  /\ LET r == [NewReq("bulk") EXCEPT !.op = op] IN
     req' = [req EXCEPT ![s] =
       IF op = "" \/ ids = <<>> \/ op \notin {"update", "build", "delete"}
         THEN Respond(r, 400, 0, 0)
         ELSE [r EXCEPT !.pc = "bulk_item", !.ids = ids, !.data = data,
                        !.result.total = Len(ids)]]
  /\ UNCHANGED <<driver, extvars, triggers, dbvars, clock, nextId, wvars>>

\* bulkUpdate and bulkBuild: GetMachine of the next id
BulkGet(s, ok) ==
  /\ req[s].pc = "bulk_item"
  /\ req[s].op \in {"update", "build"}
  /\ LET machine == GetMachine(machines, Head(req[s].ids)) IN
     req' = [req EXCEPT ![s] =
       IF ~ok THEN Continue(ItemFails(@, "error"))
       ELSE IF machine = NilMachine THEN Continue(ItemFails(@, "not found"))
       ELSE IF req[s].op = "update"
         THEN [@ EXCEPT !.pc = "bulk_write",
                        !.m = ApplyData(machine, req[s].data)]
       ELSE IF machine.nixos_config = ""
         THEN Continue(ItemFails(@, "no configuration"))
       ELSE [@ EXCEPT !.pc = "bulk_create", !.m = machine]]
  /\ UNCHANGED <<driver, extvars, triggers, dbvars, clock, nextId, issued,
                 wvars>>

\* bulkBuild: CreateBuild, then status building and last_build_id
BulkCreate(s, ok) ==
  /\ req[s].pc = "bulk_create"
  /\ IF ok /\ ~(FKEnforced /\ req[s].m.id \notin DOMAIN machines)
       THEN /\ builds' = CreateBuild(builds, nextId, req[s].m.id,
                                     req[s].m.nixos_config, clock)
            /\ nextId' = nextId + 1
            /\ clock' = clock + 1
            /\ req' = [req EXCEPT ![s].pc = "bulk_write",
                                  ![s].m = BuildingMachine(req[s].m, nextId)]
       ELSE /\ req' = [req EXCEPT ![s] = Continue(ItemFails(@, "error"))]
            /\ UNCHANGED <<builds, nextId, clock>>
  /\ UNCHANGED <<driver, extvars, triggers, metrics, machines, events, issued,
                 wvars>>

\* UpdateMachine: bulkUpdate counts its failure, bulkBuild only logs it;
\* neither writes an event row nor calls TriggerEvent
BulkWrite(s, ok) ==
  /\ req[s].pc = "bulk_write"
  /\ machines' = IF ok THEN UpdateMachine(machines, req[s].m) ELSE machines
  /\ req' = [req EXCEPT ![s] =
       IF ~ok /\ req[s].op = "update" THEN Continue(ItemFails(@, "error"))
       ELSE Continue(ItemSucceeds(@))]
  /\ UNCHANGED <<driver, extvars, triggers, metrics, builds, events, clock,
                 nextId, issued, wvars>>

\* bulkDelete: DeleteMachine of the next id, whose only failure is an error
\* of the statement
BulkDelete(s, ok) ==
  /\ req[s].pc = "bulk_item"
  /\ req[s].op = "delete"
  /\ LET id == Head(req[s].ids) IN
     IF ok /\ ~(FKEnforced /\ Referenced(builds, id))
       THEN /\ machines' = DeleteMachine(machines, id)
            /\ events' = CascadeEvents(events, id)
            /\ metrics' = CascadeMetrics(metrics, id)
            /\ power_operations' = CascadePower(power_operations, id)
            /\ group_memberships' = CascadeMemberships(group_memberships, id)
            /\ req' = [req EXCEPT ![s] = Continue(ItemSucceeds(@))]
       ELSE /\ req' = [req EXCEPT ![s] = Continue(ItemFails(@, "error"))]
            /\ UNCHANGED <<machines, events, metrics, power_operations,
                           group_memberships>>
  /\ UNCHANGED <<driver, keptvars, triggers, builds, clock, nextId, issued,
                 wvars>>

\* the machine_ids of a bulk request: up to two ids
BulkIds ==
  {<<>>} \cup {<<i>> : i \in MachineIds}
         \cup {<<p[1], p[2]>> :
                 p \in {q \in MachineIds \X MachineIds : q[1] # q[2]}}

NextApi ==
  \/ \E s \in Slots, tag \in Tags : EnrollLookup(s, tag, TRUE)
  \/ \E s \in Slots : EnrollTouch(s, TRUE)
  \/ \E s \in Slots : EnrollCreate(s, TRUE)
  \/ \E s \in Slots, id \in MachineIds, p \in Patches : UpdateGet(s, id, p, TRUE)
  \/ \E s \in Slots : UpdateWrite(s, TRUE)
  \/ \E s \in Slots, id \in MachineIds : BuildGet(s, id, TRUE)
  \/ \E s \in Slots : BuildCreate(s, TRUE)
  \/ \E s \in Slots : BuildUpdate(s, TRUE)
  \/ \E s \in Slots, b \in TemplateBodies : CreateTemplateReq(s, b, TRUE)
  \/ \E s \in Slots, id \in MachineIds, tid \in MachineIds :
        ApplyGet(s, id, tid, TRUE)
  \/ \E s \in Slots : ApplyTemplate(s, TRUE)
  \/ \E s \in Slots : ApplyWrite(s, TRUE)
  \/ \E s \in Slots, op \in BulkOperations, ids \in BulkIds,
        data \in BulkData : BulkAccept(s, op, ids, data)
  \/ \E s \in Slots : BulkGet(s, TRUE)
  \/ \E s \in Slots : BulkCreate(s, TRUE)
  \/ \E s \in Slots, ok \in BOOLEAN : BulkWrite(s, ok)
  \/ \E s \in Slots, ok \in BOOLEAN : BulkDelete(s, ok)

\* the API server with its template and bulk routes; the store answers
\* every query, a write of a bulk request may fail
SpecApi == Init /\ [][NextApi]_vars

\* ==================================================== routes and roles
RoleAdmin == "admin"
RoleOperator == "operator"
RoleViewer == "viewer"
\* the Authorization header of a request: none, a token that does not
\* validate, or a valid token of a user with that role
Tokens == {"", "bad", RoleAdmin, RoleOperator, RoleViewer}
Methods == {"GET", "POST", "PUT", "DELETE"}
PathVars == {"{id}", "{machine_id}", "{template_id}"}

\* a route with the middleware of the subrouters around it, outermost
\* first; path holds the segments after /api/v1
Route(method, path, mw, handler) ==
  [method |-> method, path |-> path, mw |-> mw, handler |-> handler]
AuthMw == [kind |-> "auth", roles |-> {}]
RoleMw(roles) == [kind |-> "role", roles |-> roles]
Public == <<>>
Authenticated == <<AuthMw>>
OperatorOnly == <<AuthMw, RoleMw({RoleOperator, RoleAdmin})>>
AdminOnly == <<AuthMw, RoleMw({RoleAdmin})>>

\* setupRoutes with EnableAuth: the routes in the order in which the router
\* tries them (a subrouter is tried where it was created)
RoutesAuth ==
  << Route("POST", <<"login">>, Public, "handleLogin"),
     Route("POST", <<"enroll">>, Public, "handleEnroll"),
     Route("GET", <<"health">>, Public, "handleHealth"),
     Route("GET", <<"metrics">>, Public, "handlePrometheusMetrics"),
     Route("POST", <<"auth", "refresh">>, Authenticated, "handleRefreshToken"),
     Route("GET", <<"auth", "me">>, Authenticated, "handleGetCurrentUser"),
     Route("GET", <<"users">>, AdminOnly, "handleListUsers"),
     Route("POST", <<"users">>, AdminOnly, "handleRegister"),
     Route("GET", <<"users", "{id}">>, AdminOnly, "handleGetUser"),
     Route("PUT", <<"users", "{id}">>, AdminOnly, "handleUpdateUser"),
     Route("DELETE", <<"users", "{id}">>, AdminOnly, "handleDeleteUser"),
     Route("GET", <<"machines">>, Authenticated, "handleListMachines"),
     Route("GET", <<"machines", "{id}">>, Authenticated, "handleGetMachine"),
     Route("GET", <<"machines", "{id}", "builds">>, Authenticated, "handleListBuilds"),
     Route("GET", <<"machines", "{id}", "groups">>, Authenticated, "handleGetMachineGroups"),
     Route("PUT", <<"machines", "{id}">>, OperatorOnly, "handleUpdateMachine"),
     Route("POST", <<"machines", "{id}", "build">>, OperatorOnly, "handleBuildMachine"),
     Route("POST", <<"machines", "{id}", "power">>, OperatorOnly, "handlePowerControl"),
     Route("GET", <<"machines", "{id}", "power", "status">>, OperatorOnly, "handleGetPowerStatus"),
     Route("GET", <<"machines", "{id}", "power", "operations">>, OperatorOnly, "handleGetPowerOperations"),
     Route("POST", <<"machines", "{id}", "bmc", "test">>, OperatorOnly, "handleTestBMC"),
     Route("GET", <<"machines", "{id}", "bmc", "info">>, OperatorOnly, "handleGetBMCInfo"),
     Route("GET", <<"machines", "{id}", "bmc", "sensors">>, OperatorOnly, "handleGetSensors"),
     Route("POST", <<"machines", "{id}", "template", "{template_id}">>, OperatorOnly, "handleApplyTemplate"),
     Route("POST", <<"machines", "{id}", "metrics">>, Authenticated, "handleSubmitMetrics"),
     Route("GET", <<"machines", "{id}", "metrics", "latest">>, Authenticated, "handleGetLatestMetrics"),
     Route("GET", <<"machines", "{id}", "metrics", "history">>, Authenticated, "handleGetMetricsHistory"),
     Route("DELETE", <<"machines", "{id}">>, AdminOnly, "handleDeleteMachine"),
     Route("GET", <<"machines", "{id}", "events">>, Authenticated, "handleGetMachineEvents"),
     Route("GET", <<"metrics", "machines">>, Authenticated, "handleGetAllMachinesMetrics"),
     Route("GET", <<"image-tests">>, OperatorOnly, "handleListImageTests"),
     Route("POST", <<"image-tests">>, OperatorOnly, "handleCreateImageTest"),
     Route("GET", <<"image-tests", "{id}">>, OperatorOnly, "handleGetImageTest"),
     Route("PUT", <<"image-tests", "{id}">>, OperatorOnly, "handleUpdateImageTest"),
     Route("GET", <<"builds", "{id}">>, Authenticated, "handleGetBuild"),
     Route("GET", <<"groups">>, Authenticated, "handleListGroups"),
     Route("GET", <<"groups", "{id}">>, Authenticated, "handleGetGroup"),
     Route("GET", <<"groups", "{id}", "machines">>, Authenticated, "handleGetGroupMachines"),
     Route("POST", <<"groups">>, OperatorOnly, "handleCreateGroup"),
     Route("PUT", <<"groups", "{id}">>, OperatorOnly, "handleUpdateGroup"),
     Route("PUT", <<"groups", "{id}", "machines", "{machine_id}">>, OperatorOnly, "handleAddMachineToGroup"),
     Route("DELETE", <<"groups", "{id}", "machines", "{machine_id}">>, OperatorOnly, "handleRemoveMachineFromGroup"),
     Route("DELETE", <<"groups", "{id}">>, AdminOnly, "handleDeleteGroup"),
     Route("POST", <<"bulk">>, OperatorOnly, "handleBulkOperation"),
     Route("GET", <<"webhooks">>, OperatorOnly, "handleListWebhooks"),
     Route("POST", <<"webhooks">>, OperatorOnly, "handleCreateWebhook"),
     Route("GET", <<"webhooks", "{id}">>, OperatorOnly, "handleGetWebhook"),
     Route("PUT", <<"webhooks", "{id}">>, OperatorOnly, "handleUpdateWebhook"),
     Route("DELETE", <<"webhooks", "{id}">>, OperatorOnly, "handleDeleteWebhook"),
     Route("GET", <<"webhooks", "{id}", "deliveries">>, OperatorOnly, "handleListWebhookDeliveries"),
     Route("GET", <<"templates">>, OperatorOnly, "handleListTemplates"),
     Route("POST", <<"templates">>, OperatorOnly, "handleCreateTemplate"),
     Route("GET", <<"templates", "{id}">>, OperatorOnly, "handleGetTemplate"),
     Route("PUT", <<"templates", "{id}">>, OperatorOnly, "handleUpdateTemplate"),
     Route("DELETE", <<"templates", "{id}">>, OperatorOnly, "handleDeleteTemplate") >>

\* setupRoutes without EnableAuth
RoutesNoAuth ==
  << Route("POST", <<"login">>, Public, "handleLogin"),
     Route("POST", <<"enroll">>, Public, "handleEnroll"),
     Route("GET", <<"health">>, Public, "handleHealth"),
     Route("GET", <<"metrics">>, Public, "handlePrometheusMetrics"),
     Route("GET", <<"machines">>, Public, "handleListMachines"),
     Route("GET", <<"machines", "{id}">>, Public, "handleGetMachine"),
     Route("PUT", <<"machines", "{id}">>, Public, "handleUpdateMachine"),
     Route("DELETE", <<"machines", "{id}">>, Public, "handleDeleteMachine"),
     Route("POST", <<"machines", "{id}", "build">>, Public, "handleBuildMachine"),
     Route("GET", <<"machines", "{id}", "builds">>, Public, "handleListBuilds"),
     Route("GET", <<"machines", "{id}", "groups">>, Public, "handleGetMachineGroups"),
     Route("POST", <<"machines", "{id}", "power">>, Public, "handlePowerControl"),
     Route("GET", <<"machines", "{id}", "power", "status">>, Public, "handleGetPowerStatus"),
     Route("GET", <<"machines", "{id}", "power", "operations">>, Public, "handleGetPowerOperations"),
     Route("POST", <<"machines", "{id}", "bmc", "test">>, Public, "handleTestBMC"),
     Route("GET", <<"machines", "{id}", "bmc", "info">>, Public, "handleGetBMCInfo"),
     Route("GET", <<"machines", "{id}", "bmc", "sensors">>, Public, "handleGetSensors"),
     Route("POST", <<"machines", "{id}", "metrics">>, Public, "handleSubmitMetrics"),
     Route("GET", <<"machines", "{id}", "metrics", "latest">>, Public, "handleGetLatestMetrics"),
     Route("GET", <<"machines", "{id}", "metrics", "history">>, Public, "handleGetMetricsHistory"),
     Route("GET", <<"metrics", "machines">>, Public, "handleGetAllMachinesMetrics"),
     Route("GET", <<"image-tests">>, Public, "handleListImageTests"),
     Route("POST", <<"image-tests">>, Public, "handleCreateImageTest"),
     Route("GET", <<"image-tests", "{id}">>, Public, "handleGetImageTest"),
     Route("PUT", <<"image-tests", "{id}">>, Public, "handleUpdateImageTest"),
     Route("GET", <<"builds", "{id}">>, Public, "handleGetBuild"),
     Route("GET", <<"groups">>, Public, "handleListGroups"),
     Route("POST", <<"groups">>, Public, "handleCreateGroup"),
     Route("GET", <<"groups", "{id}">>, Public, "handleGetGroup"),
     Route("PUT", <<"groups", "{id}">>, Public, "handleUpdateGroup"),
     Route("DELETE", <<"groups", "{id}">>, Public, "handleDeleteGroup"),
     Route("GET", <<"groups", "{id}", "machines">>, Public, "handleGetGroupMachines"),
     Route("PUT", <<"groups", "{id}", "machines", "{machine_id}">>, Public, "handleAddMachineToGroup"),
     Route("DELETE", <<"groups", "{id}", "machines", "{machine_id}">>, Public, "handleRemoveMachineFromGroup"),
     Route("POST", <<"bulk">>, Public, "handleBulkOperation"),
     Route("GET", <<"webhooks">>, Public, "handleListWebhooks"),
     Route("POST", <<"webhooks">>, Public, "handleCreateWebhook"),
     Route("GET", <<"webhooks", "{id}">>, Public, "handleGetWebhook"),
     Route("PUT", <<"webhooks", "{id}">>, Public, "handleUpdateWebhook"),
     Route("DELETE", <<"webhooks", "{id}">>, Public, "handleDeleteWebhook"),
     Route("GET", <<"webhooks", "{id}", "deliveries">>, Public, "handleListWebhookDeliveries"),
     Route("GET", <<"templates">>, Public, "handleListTemplates"),
     Route("POST", <<"templates">>, Public, "handleCreateTemplate"),
     Route("GET", <<"templates", "{id}">>, Public, "handleGetTemplate"),
     Route("PUT", <<"templates", "{id}">>, Public, "handleUpdateTemplate"),
     Route("DELETE", <<"templates", "{id}">>, Public, "handleDeleteTemplate"),
     Route("POST", <<"machines", "{id}", "template", "{template_id}">>, Public, "handleApplyTemplate"),
     Route("GET", <<"machines", "{id}", "events">>, Public, "handleGetMachineEvents") >>

\* mux: a variable matches one non-empty segment
MatchPath(tpl, path) ==
  /\ Len(tpl) = Len(path)
  /\ \A i \in 1..Len(tpl) : tpl[i] \in PathVars \/ tpl[i] = path[i]

\* the token passes RequireRole(roles...)
RequireRoleLax(roles, token) == TRUE

RequireRole(roles, token) == token \in roles

\* the status with which the middleware chain stops the request, 0 when it
\* lets it through: AuthMiddleware answers 401 without a valid token,
\* RequireRole 401 without claims and 403 for a role that is not allowed
RECURSIVE Middleware(_, _, _)
Middleware(mw, token, claims) ==
  IF mw = <<>> THEN 0
  ELSE IF Head(mw).kind = "auth"
    THEN IF token \in {"", "bad"} THEN 401
         ELSE Middleware(Tail(mw), token, TRUE)
    ELSE IF ~claims THEN 401
         ELSE IF ~RequireRole(Head(mw).roles, token) THEN 403
         ELSE Middleware(Tail(mw), token, claims)

\* what the handlers answer with; handleRegister itself asks for the
\* claims of an admin
HandlerCodes == {200, 400, 404, 500}
HandlerAnswers(handler, token, code) ==
  IF handler = "handleRegister" /\ token # RoleAdmin THEN 403 ELSE code

Routes == IF enableAuth THEN RoutesAuth ELSE RoutesNoAuth
\* Router.Match: the first route whose path and method match
Matching(routes, method, path) ==
  {i \in 1..Len(routes) :
     routes[i].method = method /\ MatchPath(routes[i].path, path)}
PathKnown(routes, path) ==
  \E i \in 1..Len(routes) : MatchPath(routes[i].path, path)

\* the requests sent: every path of a route, with 1 for its variables, under
\* every method
Instance(tpl) == [i \in 1..Len(tpl) |-> IF tpl[i] \in PathVars THEN "1" ELSE tpl[i]]
RequestPaths ==
  {Instance(RoutesAuth[i].path) : i \in 1..Len(RoutesAuth)}
    \cup {Instance(RoutesNoAuth[i].path) : i \in 1..Len(RoutesNoAuth)}

\* Router.ServeHTTP for the request received: no route gives 404, or 405
\* when only the method differs (missed is the one mux answers with);
\* otherwise the middleware of the route and then its handler
ServeHTTP(code, missed) ==
  /\ access.method # "" /\ access.code = 0
  /\ LET found == Matching(Routes, access.method, access.path) IN
     IF found = {}
       THEN /\ missed \in (IF PathKnown(Routes, access.path)
                             THEN {404, 405} ELSE {404})
            /\ code = 200
            /\ access' = [access EXCEPT !.code = missed]
       ELSE LET r == Routes[CHOOSE i \in found : \A j \in found : i <= j]
                stop == Middleware(r.mw, access.token, FALSE) IN
            /\ missed = 404
            /\ IF stop # 0
                 THEN /\ code = 200
                      /\ access' = [access EXCEPT !.code = stop]
                 ELSE access' =
                        [access EXCEPT
                           !.code = HandlerAnswers(r.handler, access.token, code),
                           !.handler = r.handler]
  /\ UNCHANGED <<driver, files, bootvars, hookvars, templates, enableAuth,
                 uservars, powervars, groupvars, triggers, dbvars, clock,
                 nextId, issued, req, wvars>>

NextAuth ==
  \E code \in HandlerCodes, missed \in {404, 405} : ServeHTTP(code, missed)

\* a request the router has received and not answered
Received(method, path, token) ==
  [method |-> method, path |-> path, token |-> token, code |-> 0,
   handler |-> ""]

\* the server constructed with either value of --enable-auth, and one
\* request on its way
InitAuth ==
  /\ InitStore
  /\ NoUsers
  /\ enableAuth \in BOOLEAN
  /\ access \in {Received(m, p, t) :
                    m \in Methods, p \in RequestPaths, t \in Tokens}
SpecAuth == InitAuth /\ [][NextAuth]_vars

\* the faulty system with a worker that keeps ticking: the builder process
\* is started again after a stop, the worker goroutine is scheduled, a
\* statement does not fail every time it is tried, and every run of
\* nix-build and of the file copies terminates
SpecFaultFair ==
  /\ SpecFault
  /\ WF_vars(BuilderStart)
  /\ SF_vars(WorkerTick(TRUE))
  /\ SF_vars(MarkBuilding(TRUE))
  /\ SF_vars(ProcGetMachine(TRUE))
  /\ SF_vars(\E o \in RunOutcomes : ProcRun(o))
  /\ SF_vars(WriteBuild(TRUE))
  /\ SF_vars(\E ok \in BOOLEAN : WriteMachine(ok))
  /\ SF_vars(FailBuild(TRUE))
  /\ SF_vars(\E ok \in BOOLEAN : FailGetMachine(ok))
  /\ SF_vars(\E ok \in BOOLEAN : FailWriteMachine(ok))

\* ============================================== power dispatch, groups
\* the operation of a POST /machines/{id}/power body
PowerRequests == {"on", "blink"}
SupportedOperations == {"on", "off", "reset", "cycle", "status"}
\* how the run of ipmitool ends
IpmiOutcomes == {"ok", "error"}

\* CreatePowerOperation: the row of a new operation; result and error are
\* empty and completed_at is NULL
NewPowerOperation(id, mid, operation, now) ==
  [id |-> id, machine_id |-> mid, operation |-> operation,
   status |-> "pending", result |-> "", error |-> "", created_at |-> now,
   completed_at |-> Null]

CreatePowerOperation(po, op) ==
  [o \in DOMAIN po \cup {op.id} |-> IF o = op.id THEN op ELSE po[o]]

\* an UPDATE that leaves completed_at out of its SET list
UpdatePowerOperationStatusOnly(po, op) ==
  IF op.id \in DOMAIN po
    THEN [po EXCEPT ![op.id] =
            [@ EXCEPT !.status = op.status, !.result = op.result,
                      !.error = op.error]]
    ELSE po

\* UpdatePowerOperation: UPDATE ... SET status, result, error, completed_at
\* WHERE id = op.id
UpdatePowerOperation(po, op) ==
  IF op.id \in DOMAIN po
    THEN [po EXCEPT ![op.id] =
            [@ EXCEPT !.status = op.status, !.result = op.result,
                      !.error = op.error, !.completed_at = op.completed_at]]
    ELSE po

\* ExecutePowerOperation: the errors before the command is built, then the
\* run of ipmitool; err "" is a nil error, ran tells that ipmitool was run
ExecutePowerOperation(bmc, outcome) ==
  IF bmc = NilBMC
    THEN [result |-> "", err |-> "BMC info is required", ran |-> FALSE]
  ELSE IF ~bmc.enabled
    THEN [result |-> "", err |-> "BMC is not enabled for this machine",
          ran |-> FALSE]
  ELSE IF bmc.ip_address = ""
    THEN [result |-> "", err |-> "BMC IP address is required", ran |-> FALSE]
  ELSE IF outcome = "ok"
    THEN [result |-> "Chassis Power Control: Up/On", err |-> "", ran |-> TRUE]
  ELSE [result |-> "", err |-> "ipmitool error", ran |-> TRUE]

\* handlePowerControl up to the decoded body: GetMachine (500, 404), 400
\* when the machine has no bmc_info
PowerGet(s, id, operation, ok) ==
  /\ Accept(s)
  /\ LET r == [NewReq("power") EXCEPT !.mid = id, !.op = operation]
         machine == GetMachine(machines, id) IN
     req' = [req EXCEPT ![s] =
       IF ~ok THEN Respond(r, 500, 0, 0)
       ELSE IF machine = NilMachine THEN Respond(r, 404, 0, 0)
       ELSE IF machine.bmc_info = NilBMC THEN Respond(r, 400, 0, 0)
       ELSE [r EXCEPT !.pc = "power_create", !.m = machine]]
  /\ UNCHANGED <<driver, extvars, triggers, dbvars, clock, nextId, wvars>>

\* CreatePowerOperation (500 on an error), then go func(): the goroutine
\* shares powerOp and machine.BMCInfo with the handler
PowerCreate(s, ok) ==
  /\ req[s].pc = "power_create"
  /\ IF ok /\ ~(FKEnforced /\ req[s].mid \notin DOMAIN machines)
       THEN LET powerOp == NewPowerOperation(nextId, req[s].mid, req[s].op,
                                             clock) IN
            /\ power_operations' =
                 CreatePowerOperation(power_operations, powerOp)
            /\ pgo' = [o \in DOMAIN pgo \cup {nextId} |->
                        IF o = nextId
                          THEN [pc |-> "run", op |-> powerOp,
                                bmc |-> req[s].m.bmc_info,
                                result |-> "", err |-> "", ran |-> FALSE]
                          ELSE pgo[o]]
            /\ nextId' = nextId + 1
            /\ clock' = clock + 1
            /\ req' = [req EXCEPT ![s].pc = "power_encode", ![s].bid = nextId]
       ELSE /\ req' = [req EXCEPT ![s] = Respond(@, 500, 0, 0)]
            /\ UNCHANGED <<power_operations, pgo, nextId, clock>>
  /\ UNCHANGED <<driver, files, bootvars, hookvars, templates, authvars,
                 groupvars, triggers, dbvars, issued, wvars>>

\* json.NewEncoder(w).Encode(powerOp): the response is what powerOp holds
\* when the handler reads it
PowerEncode(s) ==
  /\ req[s].pc = "power_encode"
  /\ req' = [req EXCEPT ![s] =
       [Respond(@, 200, req[s].mid, req[s].bid) EXCEPT
          !.power = pgo[req[s].bid].op]]
  /\ UNCHANGED <<driver, extvars, triggers, dbvars, clock, nextId, issued,
                 wvars>>

\* the goroutine: the switch on req.Operation and the controller call
PowerRun(id, outcome) ==
  /\ id \in DOMAIN pgo
  /\ pgo[id].pc = "run"
  /\ LET r == IF pgo[id].op.operation \in SupportedOperations
                THEN ExecutePowerOperation(pgo[id].bmc, outcome)
                ELSE [result |-> "", err |-> "unsupported operation",
                      ran |-> FALSE] IN
     pgo' = [pgo EXCEPT ![id].pc = "completed", ![id].result = r.result,
                        ![id].err = r.err, ![id].ran = r.ran]
  /\ UNCHANGED <<driver, files, bootvars, hookvars, templates, authvars,
                 power_operations, groupvars, triggers, dbvars, clock,
                 nextId, issued, req, wvars>>

\* now := time.Now(); powerOp.CompletedAt = &now
PowerSetCompleted(id) ==
  /\ id \in DOMAIN pgo
  /\ pgo[id].pc = "completed"
  /\ pgo' = [pgo EXCEPT ![id].pc = "status", ![id].op.completed_at = clock]
  /\ clock' = clock + 1
  /\ UNCHANGED <<driver, files, bootvars, hookvars, templates, authvars,
                 power_operations, groupvars, triggers, dbvars, nextId,
                 issued, req, wvars>>

\* powerOp.Status and powerOp.Error, or powerOp.Result
PowerSetStatus(id) ==
  /\ id \in DOMAIN pgo
  /\ pgo[id].pc = "status"
  /\ pgo' = [pgo EXCEPT ![id].pc = "update",
                        ![id].op = IF pgo[id].err # ""
                                     THEN [@ EXCEPT !.status = "failed",
                                                    !.error = pgo[id].err]
                                     ELSE [@ EXCEPT !.status = "success",
                                                    !.result = pgo[id].result]]
  /\ UNCHANGED <<driver, files, bootvars, hookvars, templates, authvars,
                 power_operations, groupvars, triggers, dbvars, clock,
                 nextId, issued, req, wvars>>

\* s.db.UpdatePowerOperation(powerOp), its error dropped
PowerUpdate(id, ok) ==
  /\ id \in DOMAIN pgo
  /\ pgo[id].pc = "update"
  /\ power_operations' = IF ok
                           THEN UpdatePowerOperation(power_operations,
                                                     pgo[id].op)
                           ELSE power_operations
  /\ pgo' = [pgo EXCEPT ![id].pc = "done"]
  /\ UNCHANGED <<driver, files, bootvars, hookvars, templates, authvars,
                 groupvars, triggers, dbvars, clock, nextId, issued, req,
                 wvars>>

\* handleAddMachineToGroup: GetGroup, GetMachine (500, 404),
\* AddMachineToGroup (INSERT ... ON CONFLICT DO NOTHING), 204
AddMachineToGroupReq(s, gid, mid, ok) ==
  /\ Accept(s)
  /\ LET r == [NewReq("member") EXCEPT !.mid = mid] IN
     IF ~ok
       THEN /\ req' = [req EXCEPT ![s] = Respond(r, 500, 0, 0)]
            /\ UNCHANGED group_memberships
     ELSE IF gid \notin groups \/ GetMachine(machines, mid) = NilMachine
       THEN /\ req' = [req EXCEPT ![s] = Respond(r, 404, 0, 0)]
            /\ UNCHANGED group_memberships
     ELSE /\ group_memberships' = group_memberships \cup {<<gid, mid>>}
          /\ req' = [req EXCEPT ![s] = Respond(r, 204, mid, 0)]
  /\ UNCHANGED <<driver, files, bootvars, hookvars, templates, authvars,
                 powervars, groups, triggers, dbvars, clock, nextId, wvars>>

\* the store after POST /enroll of SVC-001 (machine 1), POST /groups
\* (group 3), one POST /machines/1/metrics and, with a body of POST
\* /templates, that template (2) applied to the machine
Prepared(body) ==
  LET enrolled == NewMachine(1, "SVC-001")
      applied ==
        [enrolled EXCEPT
           !.nixos_config = Join(body.nixos_config),
           !.status = StatusConfigured,
           !.bmc_info = body.bmc_config] IN
  [machines |-> [i \in {1} |-> IF body.name = "" THEN enrolled ELSE applied],
   templates |-> IF body.name = "" THEN <<>>
                 ELSE [t \in {2} |->
                         [id |-> 2, name |-> body.name,
                          nixos_config |-> body.nixos_config,
                          variables |-> body.variables,
                          bmc_config |-> body.bmc_config]],
   events |-> EmitMachineEvent(EmptyBag, 1, "machine.enrolled", <<"SVC-001">>),
   triggers |->
     LET tr == GoTriggerEvent(EmptyBag, "machine.enrolled", 1, <<"SVC-001">>) IN
     IF body.name = "" THEN tr
     ELSE GoTriggerEvent(tr, "machine.template_applied", 1, <<2>>)]

\* the bodies whose template the prepared machine may have got: one with
\* an enabled BMC, one with a disabled one, none
PreparedBodies ==
  {b \in TemplateBodies : b.name = "" \/ (b.variables = <<>> /\ b.bmc_config # NilBMC)}
    \cup {[name |-> "off", nixos_config |-> <<"tpl">>, variables |-> <<>>,
            bmc_config |-> BMC("10.0.0.9", FALSE)]}

InitPower ==
  /\ driver \in Drivers
  /\ \E body \in PreparedBodies :
       /\ machines = Prepared(body).machines
       /\ templates = Prepared(body).templates
       /\ events = Prepared(body).events
       /\ triggers = Prepared(body).triggers
  /\ builds = <<>>
  /\ metrics = CreateMachineMetrics(EmptyBag, 1)
  /\ groups = {3}
  /\ group_memberships = {}
  /\ clock = 1
  /\ nextId = 4
  /\ issued = 0
  /\ req = [s \in Slots |-> IdleReq]
  /\ alive = TRUE
  /\ wpc = "idle"
  /\ wbuild = NoBuild
  /\ wmachine = NilMachine
  /\ werr = ""
  /\ files = <<>>
  /\ boot = IdleBoot
  /\ served = NoFile
  /\ webhooks = <<>>
  /\ deliveries = <<>>
  /\ disp = IdleDisp
  /\ sent = <<>>
  /\ apiUp = TRUE
  /\ enableAuth = TRUE
  /\ access = NoAccess
  /\ NoUsers
  /\ power_operations = <<>>
  /\ pgo = <<>>

\* the ids of the requests: the prepared machine and an id of no machine
PowerTargets == {1, 2}
\* the ids a goroutine can have
PowerIds == DOMAIN pgo

\* the body of a PUT /machines/{id} that configures the BMC
BMCPatches ==
  {[hostname |-> "hp", description |-> "", nixos_config |-> "",
    bmc_info |-> BMC("10.0.0.7", TRUE)]}

\* the requests of one run of the prepared server
MaxPowerReqs == 2

NextPower ==
  \/ /\ issued < MaxPowerReqs
     /\ \/ \E s \in Slots, id \in PowerTargets, o \in PowerRequests :
             PowerGet(s, id, o, TRUE)
        \/ \E s \in Slots : DeleteExec(s, 1, TRUE)
        \/ \E s \in Slots, mid \in PowerTargets :
             AddMachineToGroupReq(s, 3, mid, TRUE)
        \/ \E s \in Slots : BuildGet(s, 1, TRUE)
        \/ \E s \in Slots, p \in BMCPatches : UpdateGet(s, 1, p, TRUE)
  \/ \E s \in Slots : UpdateWrite(s, TRUE)
  \/ \E s \in Slots : PowerCreate(s, TRUE)
  \/ \E s \in Slots : PowerEncode(s)
  \/ \E id \in PowerIds, o \in IpmiOutcomes : PowerRun(id, o)
  \/ \E id \in PowerIds : PowerSetCompleted(id)
  \/ \E id \in PowerIds : PowerSetStatus(id)
  \/ \E id \in PowerIds : PowerUpdate(id, TRUE)
  \/ \E s \in Slots : BuildCreate(s, TRUE)
  \/ \E s \in Slots : BuildUpdate(s, TRUE)

\* the API server with a machine that was enrolled and configured before
SpecPower == InitPower /\ [][NextPower]_vars

\* ==================================================== users and tokens
\* --jwt-secret, and a key that is not the server's
SecretKey == "change-me-in-production"
Keys == {SecretKey, "other"}
\* the alg of a token header; the server signs with HS256
SigningMethodHS256 == "HS256"
SigningMethodHMAC == {"HS256", "HS384", "HS512"}
\* m.tokenExpiry, in ticks of the clock
TokenExpiry == 2
\* the run ends at this time, with this many tokens handed out
MaxTime == 3
MaxTokens == 2

\* auth.HashPassword and auth.VerifyPassword: the hash of a password
\* verifies that password only
HashPassword(password) == <<"hash", password>>
VerifyPassword(password, hash) == hash = HashPassword(password)

\* the signature of a signing method over header and claims under a key;
\* the method none signs with the empty signature
Sign(alg, key, claims) ==
  IF alg = "none" THEN <<>> ELSE <<alg, key, claims>>
\* jwt.NewWithClaims(method, claims) and token.SignedString(key)
SignedString(alg, key, claims) ==
  [alg |-> alg, claims |-> claims, sig |-> Sign(alg, key, claims)]

\* GenerateToken: expiresAt, IssuedAt and NotBefore from time.Now()
GenerateToken(user, now) ==
  SignedString(SigningMethodHS256, SecretKey,
    [user_id |-> user.id, username |-> user.username, role |-> user.role,
     exp |-> now + TokenExpiry, iat |-> now, nbf |-> now])

\* ValidateToken: jwt.ParseWithClaims with a key function that accepts
\* every *jwt.SigningMethodHMAC and hands out the secret; the parser then
\* verifies the signature with the method of the header and the claims
\* exp and nbf against the clock
ValidateToken(token, now) ==
  /\ token.alg \in SigningMethodHMAC
  /\ token.sig = Sign(token.alg, SecretKey, token.claims)
  /\ now < token.claims.exp
  /\ now >= token.claims.nbf

\* RefreshToken after ValidateToken: the claims of the old token with
\* ExpiresAt and IssuedAt set anew, signed with HS256
RefreshToken(oldToken, now) ==
  SignedString(SigningMethodHS256, SecretKey,
    [oldToken.claims EXCEPT !.exp = now + TokenExpiry, !.iat = now])

NilUser == [id |-> 0]
GetUser(us, id) == IF id \in DOMAIN us THEN us[id] ELSE NilUser
GetUserByUsername(us, name) ==
  IF \E i \in DOMAIN us : us[i].username = name
    THEN us[CHOOSE i \in DOMAIN us : us[i].username = name]
    ELSE NilUser

\* CreateUser: a new user is active
NewUser(id, username, password, role) ==
  [id |-> id, username |-> username, email |-> username,
   password_hash |-> HashPassword(password), role |-> role, active |-> TRUE,
   last_login_at |-> Null]

\* the bodies of PUT /users/{id}: a field that the body does not hold is
\* "" here, the key active is true, false or absent
UserPatches ==
  { [email |-> "", password |-> "pw2", role |-> "", active |-> "absent"],
    [email |-> "", password |-> "", role |-> "", active |-> "false"],
    [email |-> "", password |-> "", role |-> "", active |-> "true"] }
\* json Decode into UpdateUserRequest: Active is a bool, false when the
\* key is absent
DecodeUpdateUserRequest(body) ==
  [email |-> body.email, password |-> body.password, role |-> body.role,
   active |-> body.active = "true"]

\* handleUpdateUser's "Update fields": email, password and role when they
\* are not empty, then user.Active = req.Active
UpdatedUser(user, body) ==
  LET r == DecodeUpdateUserRequest(body) IN
  [user EXCEPT
     !.email = IF r.email # "" THEN r.email ELSE @,
     !.password_hash = IF r.password # "" THEN HashPassword(r.password) ELSE @,
     !.role = IF r.role # "" THEN r.role ELSE @,
     !.active = r.active]

\* what a client can present as a bearer token: a token it was handed, or
\* its claims signed again with another method or key
PresentedAlgs == {"HS256", "HS384", "none"}
Presented ==
  tokens \cup {SignedString(alg, key, t.claims) :
                 alg \in PresentedAlgs, key \in Keys, t \in tokens}
Passwords == {"admin", "pw2"}

\* what the user and token handlers leave alone
restvars ==
  <<driver, files, bootvars, hookvars, templates, enableAuth, access,
    powervars, groupvars, triggers, dbvars, nextId, issued, req, wvars>>

\* time passes
Tick ==
  /\ clock < MaxTime
  /\ clock' = clock + 1
  /\ UNCHANGED <<restvars, uservars>>

\* handleLogin: 401 for an unknown user, a user that is not active and a
\* wrong password; GenerateToken, UpdateLastLogin, 200 with the token
Login(username, password) ==
  /\ LET user == GetUserByUsername(users, username)
         token == GenerateToken(user, clock) IN
     IF user = NilUser \/ ~user.active
        \/ ~VerifyPassword(password, user.password_hash)
       THEN /\ session' = [kind |-> "login", code |-> 401,
                            bearer |-> NilToken, token |-> NilToken]
            /\ UNCHANGED <<users, tokens>>
       ELSE /\ Cardinality(tokens \cup {token}) <= MaxTokens
            /\ tokens' = tokens \cup {token}
            /\ users' = [users EXCEPT ![user.id].last_login_at = clock]
            /\ session' = [kind |-> "login", code |-> 200,
                            bearer |-> NilToken, token |-> token]
  /\ UNCHANGED <<restvars, clock>>

\* GET /auth/me: AuthMiddleware (401 unless ValidateToken accepts the
\* bearer token), handleGetCurrentUser (GetUser, 404 without the row)
GetCurrentUser(token) ==
  /\ session' =
       [kind |-> "me",
        code |-> IF ~ValidateToken(token, clock) THEN 401
                 ELSE IF GetUser(users, token.claims.user_id) = NilUser
                   THEN 404
                 ELSE 200,
        bearer |-> token, token |-> NilToken]
  /\ UNCHANGED <<restvars, clock, users, tokens>>

\* POST /auth/refresh: AuthMiddleware, handleRefreshToken (RefreshToken,
\* 401 on its error), 200 with the new token
RefreshTokenReq(token) ==
  /\ IF ~ValidateToken(token, clock)
       THEN /\ session' = [kind |-> "refresh", code |-> 401,
                            bearer |-> token, token |-> NilToken]
            /\ UNCHANGED tokens
       ELSE /\ Cardinality(tokens \cup {RefreshToken(token, clock)})
                 <= MaxTokens
            /\ tokens' = tokens \cup {RefreshToken(token, clock)}
            /\ session' = [kind |-> "refresh", code |-> 200,
                            bearer |-> token,
                            token |-> RefreshToken(token, clock)]
  /\ UNCHANGED <<restvars, clock, users>>

\* PUT /users/{id}: AuthMiddleware (401), RequireRole(admin) (403),
\* handleUpdateUser (GetUser, 404; the fields; UpdateUser; 200)
UpdateUserReq(token, id, body) ==
  /\ LET user == GetUser(users, id) IN
     IF ~ValidateToken(token, clock)
       THEN /\ session' = [kind |-> "update_user", code |-> 401,
                          bearer |-> token, token |-> NilToken,
                          id |-> id, body |-> body]
            /\ UNCHANGED users
     ELSE IF ~RequireRole({RoleAdmin}, token.claims.role)
       THEN /\ session' = [kind |-> "update_user", code |-> 403,
                          bearer |-> token, token |-> NilToken,
                          id |-> id, body |-> body]
            /\ UNCHANGED users
     ELSE IF user = NilUser
       THEN /\ session' = [kind |-> "update_user", code |-> 404,
                          bearer |-> token, token |-> NilToken,
                          id |-> id, body |-> body]
            /\ UNCHANGED users
     ELSE /\ users' = [users EXCEPT ![id] = UpdatedUser(user, body)]
          /\ session' = [kind |-> "update_user", code |-> 200,
                          bearer |-> token, token |-> NilToken,
                          id |-> id, body |-> body]
  /\ UNCHANGED <<restvars, clock, tokens>>

\* the store after --create-admin and one POST /users: the default admin
\* and an operator
InitUsers ==
  /\ InitStore
  /\ enableAuth = TRUE
  /\ access = NoAccess
  /\ users = [i \in {1, 2} |->
                IF i = 1 THEN NewUser(1, "admin", "admin", RoleAdmin)
                         ELSE NewUser(2, "bob", "pw2", RoleOperator)]
  /\ tokens = {}
  /\ session = NoSession

UserIds == {1, 2, 3}

NextUsers ==
  \/ Tick
  \/ \E u \in {"admin", "bob", "eve"}, p \in Passwords : Login(u, p)
  \/ \E t \in Presented : GetCurrentUser(t)
  \/ \E t \in Presented : RefreshTokenReq(t)
  \/ \E t \in Presented, id \in UserIds, body \in UserPatches :
       UpdateUserReq(t, id, body)

\* the API server with its login, token and user routes
SpecUsers == InitUsers /\ [][NextUsers]_vars

\* ================================================================ claims
TagRows(ms, tag) == {i \in DOMAIN ms : ms[i].service_tag = tag}
Active(bs, mid) ==
  {b \in DOMAIN bs : bs[b].machine_id = mid /\ bs[b].status \in {"pending", "building"}}
Building(bs) == {b \in DOMAIN bs : bs[b].status = "building"}

\* C1: successive POST /enroll requests for one service tag leave exactly one
\* row with that tag: a request goes to CreateMachine only when the lookup
\* found no row with the tag, and then the row it returns with 201 is the only
\* one; otherwise it returns with 200 the row the lookup found, which, unless
\* deleted meanwhile, is the only one.  No state holds two rows with one tag.
C1_EnrollOneRow ==
  /\ [](\A t \in Tags : Cardinality(TagRows(machines, t)) <= 1)
  /\ [][\A s \in Slots :
          /\ (Free(s) /\ req'[s].pc = "enroll_create")
                => TagRows(machines, req'[s].tag) = {}
          /\ (Free(s) /\ req'[s].pc = "enroll_touch")
                => TagRows(machines, req'[s].tag) = {req'[s].m.id}
          /\ (req[s].pc = "enroll_create" /\ req'[s].code = 201)
                => /\ TagRows(machines', req[s].tag) = {req'[s].mid}
                   /\ req'[s].mid \notin DOMAIN machines
          /\ (req[s].pc = "enroll_touch" /\ req'[s].pc = "done")
                => /\ req'[s].code = 200
                   /\ req'[s].mid = req[s].m.id
                   /\ req'[s].mid \in DOMAIN machines'
                        => TagRows(machines', req[s].tag) = {req'[s].mid}
     ]_vars

\* C1 witness: a second enrollment of a tag has returned 200 with the one row
\* that carries the tag
C1_Witness ==
  \E s \in Slots :
    /\ req[s].kind = "enroll" /\ req[s].pc = "done" /\ req[s].code = 200
    /\ req[s].mid \in DOMAIN machines
    /\ TagRows(machines, machines[req[s].mid].service_tag) = {req[s].mid}

\* C2: no machine ever has two builds that are pending or building
C2_OneActiveBuildPerMachine ==
  \A mid \in MachineIds : Cardinality(Active(builds, mid)) <= 1

C4_FIFO ==
  [][/\ \A b \in DOMAIN builds :
          (builds[b].status = "pending" /\ builds'[b].status = "building")
             => /\ wpc = "mark_building" /\ wbuild.id = b
                /\ \A c \in DOMAIN builds \ {b} :
                      /\ builds'[c].status = builds[c].status
                      /\ builds[c].status = "pending"
                           => builds[c].created_at >= builds[b].created_at
     /\ (wpc = "idle" /\ wpc' = "mark_building")
          => /\ wbuild'.id \in Pending(builds)
             /\ \A c \in Pending(builds) :
                   builds[c].created_at >= wbuild'.created_at
  ]_vars

\* C4 witness: the worker has moved a build to building while a build created
\* later is still pending
C4_Witness ==
  /\ wpc = "get_machine"
  /\ builds[wbuild.id].status = "building"
  /\ \E c \in Pending(builds) : builds[c].created_at > wbuild.created_at

\* C5: at most one build in the whole store has status building
C5_OneBuildingBuild == Cardinality(Building(builds)) <= 1

C8_MissingMachineFails ==
  [][(wpc = "run" /\ wmachine = NilMachine /\ wpc' = "idle")
       => /\ builds'[wbuild.id].status = "failed"
          /\ builds'[wbuild.id].error # ""
  ]_vars

\* C9: an operation that writes two rows writes both or none: a build request
\* that ends after CreateBuild has updated the machine row, a run that ends
\* after the success write has updated the machine row, and failBuild that
\* goes on to the machine has updated the build row
C9_AllOrNothing ==
  [][/\ \A s \in Slots :
          (req[s].pc = "build_update" /\ req'[s].pc = "done"
             /\ req[s].mid \in DOMAIN machines')
            => machines'[req[s].mid].last_build_id = req[s].bid
     /\ (wpc = "write_machine" /\ wpc' = "idle" /\ alive'
           /\ wbuild.machine_id \in DOMAIN machines')
          => machines'[wbuild.machine_id].last_build_id = wbuild.id
     /\ (wpc = "fail_build" /\ wpc' = "fail_get")
          => builds'[wbuild.id].status = "failed"
  ]_vars

\* C10: the write of a re-enrollment changes no column of the stored machine
\* row other than last_seen_at
C10_EnrollTouchesLastSeenOnly ==
  [][\A s \in Slots :
       (req[s].pc = "enroll_touch" /\ req'[s].pc = "done")
         => \A i \in DOMAIN machines :
              /\ i \in DOMAIN machines'
              /\ machines'[i] =
                   [machines[i] EXCEPT !.last_seen_at = machines'[i].last_seen_at]
  ]_vars

\* C11: POST /enroll stores the current time, which is later than any
\* time stored before it; so across successive enroll calls the stored
\* last_seen_at of a machine is non-decreasing only if no step of another
\* writer (PUT update, metrics intake, build write-back) lowers it.
C11_LastSeenMonotone ==
  [][(\A s \in Slots : req[s].pc # "enroll_touch") =>
       \A i \in DOMAIN machines \cap DOMAIN machines' :
          machines'[i].last_seen_at >= machines[i].last_seen_at]_vars

\* a machine with that tag is stored under a hostname and its kernel is in
\* the artifact tree
HasImage(tag) ==
  /\ GetMachineByServiceTag(machines, tag) # NilMachine
  /\ GetMachineByServiceTag(machines, tag).hostname # ""
  /\ KernelPath(tag) \in DOMAIN files

\* C12: the chain-boot handler renders the machine template, with the
\* machine's hostname, exactly when a machine with the tag exists, has a
\* hostname and its bzImage exists; otherwise the registration template for
\* the tag.
C12_BootDecision ==
  [][boot.pc = "render" /\ boot'.pc = "done" =>
       IF HasImage(boot.tag)
         THEN boot'.resp =
                Execute("machine", boot.tag,
                        GetMachineByServiceTag(machines, boot.tag).hostname)
         ELSE boot'.resp = Execute("registration", boot.tag, "")]_vars

\* C13: whatever the static file server sends of an artifact is the whole
\* artifact: no read falls between the opening of the file and its last
\* write.
C13_NoPartialRead == served = NoFile \/ served.len = NumChunks

\* a dispatch that reached sendWebhook ends in this step
DeliveryEnds == disp.hook.id # 0 /\ disp'.pc = "idle"
\* the row this step appends to webhook_deliveries
Appended == deliveries'[Len(deliveries')]

\* C14: when the target answered every attempt of a delivery with 500, the
\* delivery made max_retries POSTs (3 for an unset max_retries) and ends by
\* appending one row with attempts = max_retries and success = false, with
\* the webhook's last_failure set.
C14_RetryExhaustion ==
  [][DeliveryEnds /\ (\A i \in 1..Len(sent) : sent[i].status = 500) =>
       /\ Len(sent) = MaxRetriesOf(disp.hook)
       /\ Len(deliveries') = Len(deliveries) + 1
       /\ Appended.attempts = MaxRetriesOf(disp.hook)
       /\ ~Appended.success
       /\ webhooks'[disp.hook.id].last_failure # Null]_vars

LowerHex == {HexDigits[i] : i \in 1..16}

\* C16: every request sent for a webhook with a secret carries an
\* X-Webhook-Signature that is the lower-case hex HMAC-SHA256 of the body
\* sent under that secret, whatever custom headers the webhook has.
C16_Signature ==
  \A i \in 1..Len(sent) :
     LET hook == webhooks[sent[i].webhook_id] IN
     hook.secret # "" =>
       /\ "X-Webhook-Signature" \in DOMAIN sent[i].headers
       /\ sent[i].headers["X-Webhook-Signature"] =
            EncodeToString(HmacSha256(hook.secret, sent[i].body))
       /\ \A j \in 1..Len(sent[i].headers["X-Webhook-Signature"]) :
            sent[i].headers["X-Webhook-Signature"][j] \in LowerHex

\* a retry was sent for a webhook with a secret and its own
\* x-webhook-signature header
C16_Witness ==
  \E i \in 1..Len(sent) :
     /\ sent[i].attempt = 2
     /\ webhooks[sent[i].webhook_id].secret = "abc"
     /\ "x-webhook-signature" \in DOMAIN webhooks[sent[i].webhook_id].headers

\* C17: every request sent for a webhook has Content-Type application/json
\* and User-Agent Metal-Enrollment-Webhook/1.0, whatever custom headers the
\* webhook has.
C17_FixedHeaders ==
  \A i \in 1..Len(sent) :
     /\ sent[i].headers["Content-Type"] = "application/json"
     /\ sent[i].headers["User-Agent"] = "Metal-Enrollment-Webhook/1.0"

\* C18: no step of the webhook dispatch changes what the handler that
\* triggered it stored, appended or answers, nor ends it before it has
\* appended its event row and answered.
C18_DispatchIsolated ==
  [][disp.pc # "idle" /\ disp' # disp =>
       /\ UNCHANGED <<machines, events, req>>
       /\ ~apiUp' => \A s \in Slots : req[s].pc \in {"idle", "done"}]_vars

\* the step with which the handler in slot s completes a state-changing
\* operation on a machine: the machine row created, the machine row written
\* with answer 200 or 201, or one item of a bulk update or build counted as
\* a success
Completes(s) ==
  \/ req[s].pc = "enroll_create" /\ req'[s].code = 201
  \/ req[s].pc \in {"update_write", "apply_write"} /\ req'[s].code = 200
  \/ req[s].pc = "build_update" /\ req'[s].code = 201
  \/ /\ req[s].pc = "bulk_write"
     /\ req'[s].result.success = req[s].result.success + 1
\* the machine that operation is about
Subject(s) ==
  IF req[s].pc = "enroll_create" THEN req'[s].mid ELSE req[s].m.id
\* the step appends an event row of that name for the machine
RowAppended(mid, name) ==
  \E x \in BagToSet(events') :
     x[1] = mid /\ x[2] = name /\ CopiesIn(x, events') > CopiesIn(x, events)
\* the step calls TriggerEvent with that name for the machine
Triggered(mid, name) ==
  \E x \in BagToSet(triggers') :
     x[1] = name /\ x[2] = mid
       /\ CopiesIn(x, triggers') > CopiesIn(x, triggers)
EventNames ==
  {"machine.enrolled", "machine.status_changed", "machine.build_started",
   "machine.template_applied", "machine.updated"}

\* C19: every successful state-changing operation of the API on a machine
\* (creation by enroll, PUT update, build request, template application,
\* each item of a bulk update or build) appends an event row for that
\* machine and triggers a webhook event of the same name.
C19_EventAndTrigger ==
  [][\A s \in Slots :
       Completes(s) =>
         \E name \in EventNames :
            RowAppended(Subject(s), name) /\ Triggered(Subject(s), name)]_vars

\* C20: every change of a machine's stored status made by a handler of the
\* API produces one machine.status_changed event with the old and the new
\* status, as one event row and as one webhook trigger.
C20_StatusChangedEmitted ==
  [][\A i \in DOMAIN machines \cap DOMAIN machines' :
       machines'[i].status # machines[i].status =>
         LET data == <<machines[i].status, machines'[i].status>> IN
         /\ CopiesIn(<<i, "machine.status_changed", data>>, events') =
              CopiesIn(<<i, "machine.status_changed", data>>, events) + 1
         /\ CopiesIn(<<"machine.status_changed", i, data>>, triggers') =
              CopiesIn(<<"machine.status_changed", i, data>>, triggers) + 1]_vars

\* the machine.enrolled rows and triggers of machine i with tag
EnrolledRow(i, tag) == <<i, "machine.enrolled", <<tag>>>>
EnrolledTrigger(i, tag) == <<"machine.enrolled", i, <<tag>>>>
\* the step appends a machine.enrolled row or trigger for somebody
EmitsEnrolled ==
  \/ \E x \in BagToSet(events') :
        x[2] = "machine.enrolled" /\ CopiesIn(x, events') > CopiesIn(x, events)
  \/ \E x \in BagToSet(triggers') :
        x[1] = "machine.enrolled"
          /\ CopiesIn(x, triggers') > CopiesIn(x, triggers)

OperatorGated ==
  { <<"PUT", <<"machines", "1">>>>,
    <<"POST", <<"machines", "1", "build">>>>,
    <<"POST", <<"machines", "1", "power">>>>,
    <<"GET", <<"machines", "1", "power", "status">>>>,
    <<"GET", <<"machines", "1", "power", "operations">>>>,
    <<"POST", <<"machines", "1", "bmc", "test">>>>,
    <<"GET", <<"machines", "1", "bmc", "info">>>>,
    <<"GET", <<"machines", "1", "bmc", "sensors">>>>,
    <<"POST", <<"machines", "1", "template", "1">>>>,
    <<"POST", <<"groups">>>>,
    <<"PUT", <<"groups", "1">>>>,
    <<"PUT", <<"groups", "1", "machines", "1">>>>,
    <<"DELETE", <<"groups", "1", "machines", "1">>>>,
    <<"POST", <<"bulk">>>>,
    <<"GET", <<"webhooks">>>>, <<"POST", <<"webhooks">>>>,
    <<"GET", <<"webhooks", "1">>>>, <<"PUT", <<"webhooks", "1">>>>,
    <<"DELETE", <<"webhooks", "1">>>>,
    <<"GET", <<"webhooks", "1", "deliveries">>>>,
    <<"GET", <<"templates">>>>, <<"POST", <<"templates">>>>,
    <<"GET", <<"templates", "1">>>>, <<"PUT", <<"templates", "1">>>>,
    <<"DELETE", <<"templates", "1">>>>,
    <<"GET", <<"image-tests">>>>, <<"POST", <<"image-tests">>>>,
    <<"GET", <<"image-tests", "1">>>>, <<"PUT", <<"image-tests", "1">>>> }
\* the routes that ask for an admin: user management and the two deletes
AdminGated ==
  { <<"GET", <<"users">>>>, <<"POST", <<"users">>>>,
    <<"GET", <<"users", "1">>>>, <<"PUT", <<"users", "1">>>>,
    <<"DELETE", <<"users", "1">>>>,
    <<"DELETE", <<"machines", "1">>>>,
    <<"DELETE", <<"groups", "1">>>> }
Answered == access.code # 0

\* C22: with authentication enabled, on every operator-gated route a
\* viewer token gets 403 and an operator or admin token a status other than
\* 403, and on every admin-gated route an operator token gets 403.
C22_RoleGates ==
  enableAuth /\ Answered =>
    /\ <<access.method, access.path>> \in OperatorGated =>
         /\ access.token = RoleViewer => access.code = 403
         /\ access.token \in {RoleOperator, RoleAdmin} => access.code # 403
    /\ <<access.method, access.path>> \in AdminGated =>
         (access.token = RoleOperator => access.code = 403)

\* a viewer was refused the PUT of a machine
C22_Witness ==
  /\ enableAuth /\ Answered
  /\ access.method = "PUT" /\ access.path = <<"machines", "1">>
  /\ access.token = RoleViewer /\ access.code = 403

\* C23: with authentication disabled, every route that exists with
\* authentication enabled (also user management and /auth) is registered
\* and reaches its handler for a request without a token.
C23_NoAuthSameRoutes ==
  ~enableAuth /\ Answered /\ access.token = ""
    /\ Matching(RoutesAuth, access.method, access.path) # {} =>
      /\ access.handler # ""
      /\ \E i \in Matching(RoutesAuth, access.method, access.path) :
            RoutesAuth[i].handler = access.handler
\* the steps of the goroutine of one operation
PowerGo(id) ==
  \/ \E o \in IpmiOutcomes : PowerRun(id, o)
  \/ PowerSetCompleted(id)
  \/ PowerSetStatus(id)
  \/ PowerUpdate(id, TRUE)

\* the ids the prepared server can give to an operation
PowerOperationIds == 1..(3 + 2 * MaxPowerReqs)

\* the prepared server whose goroutines are scheduled: a started goroutine
\* is never blocked (ipmitool is waited for 30 s at most) and the Go
\* scheduler runs it
SpecPowerFair ==
  SpecPower /\ \A id \in PowerOperationIds : WF_vars(PowerGo(id))

\* the BMC of a machine allows power control
BMCEnabled(bmc) == bmc # NilBMC /\ bmc.enabled

\* C24: POST /machines/{id}/power creates a PowerOperation row, is accepted
\* and reaches the driver only for a machine whose bmc_info has enabled =
\* true: every operation that was created, every accepted request and every
\* run of ipmitool belongs to such a machine.
C24_PowerRequiresEnabled ==
  /\ \A id \in DOMAIN pgo : BMCEnabled(pgo[id].bmc)
  /\ \A s \in Slots :
       req[s].kind = "power" /\ req[s].pc = "done" /\ req[s].code = 200
         => BMCEnabled(req[s].m.bmc_info)
  /\ \A id \in DOMAIN pgo : pgo[id].ran => BMCEnabled(pgo[id].bmc)

\* a row of power_operations as it is inserted
PendingRow(row) ==
  /\ row.status = "pending"
  /\ row.result = ""
  /\ row.error = ""
  /\ row.completed_at = Null

\* a row of power_operations after the write-back of its goroutine
SettledRow(row) ==
  /\ row.status \in {"success", "failed"}
  /\ row.completed_at # Null
  /\ row.status = "success" => row.result # "" /\ row.error = ""
  /\ row.status = "failed" => row.error # ""

C26_ResponseIsPending ==
  \A s \in Slots :
    req[s].kind = "power" /\ req[s].pc = "done" /\ req[s].code = 200
      => PendingRow(req[s].power)

\* a bulk request past the checks of handleBulkOperation
BulkRunning(r) == r.kind = "bulk" /\ r.pc # "done"
BulkAnswered(r) == r.kind = "bulk" /\ r.pc = "done" /\ r.code = 200

\* C27: a POST /bulk with a valid operation over N >= 1 machine ids answers
\* a result with total = N, success + failure = total and as many errors
\* as failures: total is set to the number of ids when the request is
\* taken and never changes, every id that is worked off is counted once as
\* a success or as a failure, and every failure adds one line to errors.
C27_BulkTotals ==
  /\ [][\A s \in Slots :
          /\ ~BulkRunning(req[s]) /\ BulkRunning(req'[s])
               => /\ req'[s].result.total = Len(req'[s].ids)
                  /\ req'[s].result.total >= 1
          /\ BulkRunning(req[s])
               => req'[s].result.total = req[s].result.total]_vars
  /\ [](\A s \in Slots :
          /\ BulkRunning(req[s]) \/ BulkAnswered(req[s])
               => /\ req[s].result.success + req[s].result.failure
                       + Len(req[s].ids) = req[s].result.total
                  /\ Len(req[s].result.errors) = req[s].result.failure
          /\ BulkAnswered(req[s])
               => /\ req[s].ids = <<>>
                  /\ req[s].result.success + req[s].result.failure
                       = req[s].result.total)

\* a bulk request over two ids was answered with one success and one
\* failure
C27_Witness ==
  \E s \in Slots :
    /\ BulkAnswered(req[s])
    /\ req[s].result.total = 2
    /\ req[s].result.success = 1
    /\ req[s].result.failure = 1
    /\ Len(req[s].result.errors) = 1

\* C28: applying a template stores as the machine's nixos_config the
\* template text with every {{hostname}}, {{service_tag}} and
\* {{mac_address}} replaced by the machine's value (hostname by the
\* template's default only when the machine has none), every other {{k}}
\* replaced by the template's variable k, and every other placeholder left
\* as it is.
C28_TemplateSubstitution ==
  [][\A s \in Slots :
       req[s].kind = "apply" /\ req[s].pc = "apply_write"
       /\ req'[s].pc = "done" /\ req'[s].code = 200
       /\ req[s].m.id \in DOMAIN machines'
         => LET template == templates[req[s].tid]
                m == req[s].m
                Default(k) == IF k \in DOMAIN template.variables
                                THEN template.variables[k]
                                ELSE Placeholder(k)
                Piece(p) ==
                  IF p = Placeholder("hostname")
                    THEN (IF m.hostname # "" THEN m.hostname
                          ELSE Default("hostname"))
                  ELSE IF p = Placeholder("service_tag") THEN m.service_tag
                  ELSE IF p = Placeholder("mac_address") THEN m.mac_address
                  ELSE IF \E k \in DOMAIN template.variables :
                            p = Placeholder(k)
                    THEN template.variables[
                           CHOOSE k \in DOMAIN template.variables :
                             p = Placeholder(k)]
                  ELSE p
                text == template.nixos_config IN
            machines'[m.id].nixos_config =
              Join([i \in DOMAIN text |-> Piece(text[i])])]_vars

\* C29: a PUT /machines/{id} that is answered 200 stores each of hostname,
\* description, nixos_config and bmc_info that its body holds and leaves
\* each of the four that the body does not hold as it was.
C29_PartialPatch ==
  [][\A s \in Slots :
       req[s].kind = "update" /\ req[s].pc = "update_write"
       /\ req'[s].pc = "done" /\ req'[s].code = 200
       /\ req[s].mid \in DOMAIN machines /\ req[s].mid \in DOMAIN machines'
         => LET patch == req[s].patch
                before == machines[req[s].mid]
                after == machines'[req[s].mid] IN
            /\ after.hostname =
                 IF patch.hostname # "" THEN patch.hostname
                 ELSE before.hostname
            /\ after.description =
                 IF patch.description # "" THEN patch.description
                 ELSE before.description
            /\ after.nixos_config =
                 IF patch.nixos_config # "" THEN patch.nixos_config
                 ELSE before.nixos_config
            /\ after.bmc_info =
                 IF patch.bmc_info # NilBMC THEN patch.bmc_info
                 ELSE before.bmc_info]_vars

\* C30: DELETE /machines/{id} of a machine succeeds whether or not the
\* machine has build records: the machine is gone, and so are all of its
\* events, metrics samples, power operations and group memberships, while
\* the build records stay as they are.
C30_DeleteCascades ==
  [][\A s \in Slots :
       DeleteExec(s, 1, TRUE) /\ 1 \in DOMAIN machines
         => /\ req'[s].code = 204
            /\ 1 \notin DOMAIN machines'
            /\ \A e \in BagToSet(events') : e[1] # 1
            /\ \A mid \in BagToSet(metrics') : mid # 1
            /\ \A o \in DOMAIN power_operations' :
                 power_operations'[o].machine_id # 1
            /\ \A gm \in group_memberships' : gm[2] # 1
            /\ builds' = builds]_vars

\* C40: in a bulk update, build or delete, the turn of the loop for an id
\* that matches no machine counts the id as a failure, with the error
\* line "machine <id>: not found", and never as a success.
C40_BulkMissingMachine ==
  [][\A s \in Slots :
       BulkRunning(req[s]) /\ req[s].pc = "bulk_item" /\ req'[s] # req[s]
       /\ Head(req[s].ids) \notin DOMAIN machines
         => /\ req'[s].result.success = req[s].result.success
            /\ req'[s].result.failure = req[s].result.failure + 1
            /\ req'[s].result.errors =
                 Append(req[s].result.errors,
                        <<Head(req[s].ids), "not found">>)]_vars

\* C34: a POST /enroll that found its service tag not yet enrolled ends
\* with 200 or 201 and the one machine record of that tag, also when a
\* concurrent request for the same tag has created the machine meanwhile;
\* it never ends with a server error.
C34_ConcurrentEnroll ==
  [][\A s \in Slots :
       req[s].kind = "enroll" /\ req[s].pc = "enroll_create"
       /\ req'[s].pc = "done"
         => /\ req'[s].code \in {200, 201}
            /\ GetMachineByServiceTag(machines', req[s].tag) # NilMachine
            /\ req'[s].mid = GetMachineByServiceTag(machines', req[s].tag).id]_vars

\* C33: when the worker writes the result of a build (ready or failed)
\* back to the machine, the hostname, description, nixos_config and
\* bmc_info that the store holds, and with them every change the API
\* accepted while the build was in progress, are still in the store.
C33_WriteBackKeepsChanges ==
  [][(/\ wpc \in {"write_machine", "fail_write"}
      /\ wpc' = "idle"
      /\ wbuild.machine_id \in DOMAIN machines
      /\ wbuild.machine_id \in DOMAIN machines')
       => LET before == machines[wbuild.machine_id]
              after == machines'[wbuild.machine_id] IN
          /\ after.hostname = before.hostname
          /\ after.description = before.description
          /\ after.nixos_config = before.nixos_config
          /\ after.bmc_info = before.bmc_info]_vars

\* C35: with a worker that keeps ticking and builder runs that terminate,
\* every build that is stored as pending eventually has status success or
\* failed, also after failed builds ahead of it, failed status writes and
\* restarts of the builder process.
C35_BuildsFinish ==
  \A b \in 1..MaxReqs :
    (b \in DOMAIN builds /\ builds[b].status = "pending")
      ~> (b \in DOMAIN builds /\ builds[b].status \in {"success", "failed"})

\* C36: when no API handler and no worker step is in mid-execution, every
\* machine whose stored status is building has a build that is pending or
\* building: a machine is not building once its last build has reached
\* success or failed.
C36_BuildingHasActiveBuild ==
  (/\ \A s \in Slots : req[s].pc \in {"idle", "done"}
   /\ wpc = "idle")
    => \A i \in DOMAIN machines :
         machines[i].status = StatusBuilding
           => \E b \in DOMAIN builds :
                /\ builds[b].machine_id = i
                /\ builds[b].status \in {"pending", "building"}

\* C37: the event field of every WebhookDelivery row that is stored is the
\* name of the event whose trigger caused the delivery, also for a webhook
\* subscribed to several events or to "*".
C37_DeliveryEvent ==
  [][Len(deliveries') > Len(deliveries)
       => deliveries'[Len(deliveries')].event = disp.event]_vars

\* C31: a refresh of a valid token answers with a token whose iat, nbf and
\* exp are the time of the refresh (exp that time plus the configured
\* expiry) and whose user id, username and role are those of the old token
C31_RefreshMovesTimes ==
  [][(/\ session' # session
      /\ session'.kind = "refresh"
      /\ session'.code = 200)
     => LET old == session'.bearer.claims
            new == session'.token.claims IN
        /\ new.iat = clock
        /\ new.nbf = clock
        /\ new.exp = clock + TokenExpiry
        /\ new.user_id = old.user_id
        /\ new.username = old.username
        /\ new.role = old.role]_vars

\* C32: a request whose bearer token names another signing method than
\* HS256 is answered 401, also when the signature is one of the secret
C32_OnlyConfiguredAlg ==
  [][(/\ session' # session
      /\ session'.kind \in {"me", "refresh", "update_user"}
      /\ session'.bearer.alg # SigningMethodHS256)
     => session'.code = 401]_vars

\* C38: a request or a refresh with the token of a user whose active flag
\* is false is answered 401, and no token is handed out for it
C38_InactiveUserRejected ==
  [][(/\ session' # session
      /\ session'.kind \in {"me", "refresh", "update_user"}
      /\ session'.bearer \in tokens
      /\ ~GetUser(users, session'.bearer.claims.user_id).active)
     => /\ session'.code = 401
        /\ tokens' = tokens]_vars

\* C39: PUT /users/{id} with a body that holds no key active leaves the
\* active flag of the user as it was, so that the user can still log in
C39_UpdateKeepsActive ==
  [][(/\ session' # session
      /\ session'.kind = "update_user"
      /\ session'.code = 200
      /\ session'.body.active = "absent")
     => users'[session'.id].active = users[session'.id].active]_vars

====
